---------------------------- MODULE Spec2Model ----------------------------
(***************************************************************************)
(* A model of open-vm-tools/lib/lock/ul.c: the MXUser lock-instrumentation *)
(* layer (per-thread tracking of held locks, rank checking, the internal   *)
(* singleton lock, header signatures and the legacy MX hook table).        *)
(*                                                                         *)
(* Panic() never returns: a fatal abort ends the process, so once          *)
(* `aborted` is set no operation is enabled any more.                      *)
(***************************************************************************)
EXTENDS Integers, Sequences, FiniteSets, TLC

(***************************************************************************)
(* Bounds and program constants                                            *)
(***************************************************************************)

\* Maximum recursion depth of a recursive lock (ulInt.h; scaled down).
MXUSER_MAX_REC_DEPTH == 2

\* ul.c:416  #define MXUSER_MAX_LOCKS_PER_THREAD (2 * MXUSER_MAX_REC_DEPTH)
MXUSER_MAX_LOCKS_PER_THREAD == 2 * MXUSER_MAX_REC_DEPTH

\* ul.c:43
MXUSER_MAX_LOOP == 5

\* The rank of an unranked lock; the least rank (MXUserThreadRank starts its
\* maximum from it).
RANK_UNRANKED == 0

NULL == "NULL"

\* Lock headers of the tracking model and their (immutable) ranks: an unranked
\* lock, a low rank, two distinct locks of one middle rank, and a high rank.
Headers == {"U", "A", "B", "C", "D"}

HeaderRank(h) ==
    CASE h = "U" -> RANK_UNRANKED
      [] h = "A" -> 1
      [] h = "B" -> 2
      [] h = "C" -> 2
      [] h = "D" -> 3

Ranks == {HeaderRank(h) : h \in Headers}

\* The locks the thread of Spec works with (two of them of equal rank), and
\* those of SpecChain (all of different ranks).
TrackHeaders == {"U", "A", "B", "C"}
ChainHeaders == {"U", "A", "B", "D"}

\* Two locks of different ranks, for the specifications that add other
\* calls to the tracking calls.
AbortHeaders == {"A", "B"}

\* Thread identities (MXUserCastedThreadID).
Tids == {"t1", "t2", "t3"}

\* The callers of the interleaved operations.
Callers == {"c1", "c2", "c3"}

\* Each caller a thread of its own.
OwnTids == [c \in Callers |->
              CASE c = "c1" -> "t1" [] c = "c2" -> "t2" [] c = "c3" -> "t3"]

\* The thread that issues the tracking calls of Spec.
TrackThreads == {"t1"}

\* The nine hook slots of MXUserInstallMxHooks, in parameter order.
HookSlots == {"LockLister", "CheckRank", "LockRec", "UnlockRec", "TryLockRec",
              "IsLockedByCurThreadRec", "NameRec", "SetInPanic", "InPanic"}

NoHooks == [s \in HookSlots |-> NULL]

\* The hook functions of the legacy MX module.
LegacyHooks == [s \in HookSlots |-> "mx"]

MAX(a, b) == IF a > b THEN a ELSE b

VARIABLES
    mxInPanic,          \* ul.c:28   static Bool mxInPanic
    legacyInPanic,      \* the legacy MX module's own panic state
    hooks,              \* ul.c:33-41 the nine hook pointers
    loopCounter,        \* ul.c:300  static uint32 loopCounter
    dumped,             \* headers whose dumpFunc was invoked, in order
    aborted,            \* "none", or the kind of the fatal abort
    rankViolations,     \* number of rank violations reported
    hashTableMem,       \* ul.c:427  thread id -> perThread (or NULL)
    perThreads,         \* the MXUserPerThread structures ever malloc'ed,
                        \* by address ("1", "2", ...)
    perThreadFreeList,  \* ul.c:425
    perThreadLockMem,   \* ul.c:424  storage cell of the internal lock
    recLocks,           \* the MXRecLock objects ever malloc'ed, by address
    perThreadLockOwner, \* the caller inside the internal lock, or NULL
    outstanding,        \* per thread and header: returned acquires - releases
    lastCall,           \* the last call issued and its arguments
    \* callers inside MXUserInternalSingleton (ul.c:113-137)
    sPc,                \* where each caller is
    sLock,              \* its local `lock`
    sNewLock,           \* its local `newLock`
    sRet,               \* what its calls returned, in order
    \* callers inside MXUserGetPerThread (ul.c:543-577)
    tidOf,              \* MXUserCastedThreadID() of each caller
    gPc,                \* where each caller is
    gNewEntry,          \* its local `newEntry`
    gPerThread,         \* its local `perThread`
    gResult,            \* what its calls with mayAlloc TRUE returned, in order
    syndromeMem,        \* ul.c:174  static Atomic_uint32 syndromeMem
    headers,            \* MXUserHeader objects: signature, serialNumber,
                        \* badHeader
    signedAs,           \* the object type each header was constructed with
    hashTableAllocated, \* ul.c:550 HashTable_AllocOnce(&hashTableMem, ...) done
    \* per thread, its calls of MXUserDumpAndPanic in progress (ul.c:293-320),
    \* innermost last
    dpStack,
    \* callers inside MXUserSyndrome (ul.c:170-206)
    yPc,                \* where each caller is
    ySyndrome,          \* its local `syndrome`
    yRet                \* what its calls returned, in order

panicVars == <<mxInPanic, legacyInPanic, loopCounter, dumped, rankViolations>>

storeVars == <<hashTableMem, perThreads, perThreadFreeList>>

lockVars == <<perThreadLockMem, recLocks, perThreadLockOwner>>

singletonVars == <<sPc, sLock, sNewLock, sRet>>

getVars == <<tidOf, gPc, gNewEntry, gPerThread, gResult>>

sigVars == <<syndromeMem, headers, signedAs>>

extraVars == <<dpStack, yPc, ySyndrome, yRet>>

vars == <<panicVars, hooks, aborted, storeVars, lockVars, outstanding,
          lastCall, singletonVars, getVars, sigVars, hashTableAllocated, extraVars>>

(***************************************************************************)
(* MXUserPerThread                                                         *)
(***************************************************************************)

\* memset(perThread, 0, sizeof *perThread)
ZeroPerThread ==
    [next |-> NULL, locksHeld |-> 0,
     lockArray |-> [i \in 1..MXUSER_MAX_LOCKS_PER_THREAD |-> NULL]]

\* The entries lockArray[0 .. locksHeld-1] as a sequence.
Held(pt) == [i \in 1..pt.locksHeld |-> pt.lockArray[i]]

HeldOf(t) ==
    IF hashTableMem[t] = NULL THEN <<>> ELSE Held(perThreads[hashTableMem[t]])

InitAt(tids) ==
    /\ mxInPanic = FALSE
    /\ legacyInPanic = FALSE
    /\ hooks = NoHooks
    /\ loopCounter = 0
    /\ dumped = <<>>
    /\ aborted = "none"
    /\ rankViolations = 0
    /\ hashTableMem = [t \in Tids |-> NULL]
    /\ perThreads = <<>>
    /\ perThreadFreeList = NULL
    /\ perThreadLockMem = NULL
    /\ recLocks = <<>>
    /\ perThreadLockOwner = NULL
    /\ outstanding = [t \in Tids |-> [h \in Headers |-> 0]]
    /\ lastCall = [op |-> "none"]
    /\ sPc = [c \in Callers |-> "idle"]
    /\ sLock = [c \in Callers |-> NULL]
    /\ sNewLock = [c \in Callers |-> NULL]
    /\ sRet = [c \in Callers |-> <<>>]
    /\ tidOf = tids
    /\ gPc = [c \in Callers |-> "idle"]
    /\ gNewEntry = [c \in Callers |-> NULL]
    /\ gPerThread = [c \in Callers |-> NULL]
    /\ gResult = [c \in Callers |-> <<>>]
    /\ syndromeMem = [i \in 1..32 |-> FALSE]
    /\ headers = [h \in Headers |->
                    [signature |-> [i \in 1..32 |-> FALSE], serialNumber |-> 0,
                     badHeader |-> FALSE]]
    /\ signedAs = [h \in Headers |-> 0]
    /\ hashTableAllocated = FALSE
    /\ dpStack = [t \in Tids |-> <<>>]
    /\ yPc = [c \in Callers |-> "idle"]
    /\ ySyndrome = [c \in Callers |-> [i \in 1..32 |-> FALSE]]
    /\ yRet = [c \in Callers |-> <<>>]

Init == InitAt(OwnTids)

(***************************************************************************)
(* Panic state                                                             *)
(***************************************************************************)

\* MXUser_InPanic
\* Mutant: the legacy module is not asked.
MXUser_InPanic_LocalOnly == mxInPanic

\* ul.c:343  mxInPanic || (MXUserMX_InPanic != NULL && MXUserMX_InPanic())
MXUser_InPanic ==
    mxInPanic \/ (hooks["InPanic"] # NULL /\ legacyInPanic)

\* The effect of MXUser_SetInPanic on the panic state.
SetInPanicEffect ==
    /\ mxInPanic' = TRUE
    /\ legacyInPanic' = IF hooks["SetInPanic"] # NULL THEN TRUE ELSE legacyInPanic

\* Mutant: Panic without the call of the header's dump function.
MXUserDumpAndPanic_NoDump(header, kind) ==
    /\ loopCounter' = loopCounter + 1
    /\ IF loopCounter + 1 > MXUSER_MAX_LOOP
          THEN SetInPanicEffect
          ELSE UNCHANGED <<mxInPanic, legacyInPanic>>
    /\ dumped' = dumped
    /\ aborted' = kind

\* MXUserDumpAndPanic(header, ...): count the call, force panic mode when the
\* counter passes MXUSER_MAX_LOOP, dump the header, Panic.
MXUserDumpAndPanic(header, kind) ==
    /\ loopCounter' = loopCounter + 1
    /\ IF loopCounter + 1 > MXUSER_MAX_LOOP
          THEN SetInPanicEffect
          ELSE UNCHANGED <<mxInPanic, legacyInPanic>>
    /\ dumped' = Append(dumped, header)
    /\ aborted' = kind

(***************************************************************************)
(* The thread-id keyed store (lib/misc hashTable, HASH_FLAG_ATOMIC)        *)
(***************************************************************************)

\* HashTable_Lookup(hash, tid, &perThread): the entry, NULL when absent.
HashTable_Lookup(hash, tid) == hash[tid]

\* HashTable_LookupOrInsert(hash, tid, newEntry): atomically, the entry
\* already present, or newEntry after inserting it.
HashTable_LookupOrInsert(hash, tid, newEntry) ==
    IF hash[tid] = NULL
       THEN [value |-> newEntry, hash |-> [hash EXCEPT ![tid] = newEntry]]
       ELSE [value |-> hash[tid], hash |-> hash]

(***************************************************************************)
(* MXUserInternalSingleton, MXUserAllocPerThread and MXUserGetPerThread,   *)
(* run without interleaving                                                *)
(***************************************************************************)

\* An MXRecLock as malloc returns it, after MXRecLockInit.
NewRecLock(initOk) == [inited |-> initOk, destroyed |-> 0, freed |-> 0]

\* The address malloc returns for a new object of the family objs.
NewAddress(objs) == ToString(Cardinality(DOMAIN objs) + 1)

\* objs with a new object obj at NewAddress(objs).
WithNew(objs, obj) ==
    [a \in DOMAIN objs \cup {NewAddress(objs)} |->
        IF a = NewAddress(objs) THEN obj ELSE objs[a]]

\* MXUserInternalSingleton(&mem) by a caller that nothing interleaves with
\* and whose MXRecLockInit succeeds: the published lock, published now if
\* the cell was empty.
MXUserInternalSingleton(mem, locks) ==
    IF mem # NULL
       THEN [lock |-> mem, mem |-> mem, locks |-> locks]
       ELSE [lock  |-> NewAddress(locks),
             mem   |-> NewAddress(locks),
             locks |-> WithNew(locks, NewRecLock(TRUE))]

\* MXUserAllocPerThread: the head of the free list, else a malloc'ed
\* structure; zeroed either way.
MXUserAllocPerThread(pts, free) ==
    IF free = NULL
       THEN [entry |-> NewAddress(pts),
             pts   |-> WithNew(pts, ZeroPerThread),
             free  |-> NULL]
       ELSE [entry |-> free,
             pts   |-> [pts EXCEPT ![free] = ZeroPerThread],
             free  |-> pts[free].next]

\* MXUserFreePerThread: push the structure on the free list.
MXUserFreePerThread(pts, free, entry) ==
    [pts  |-> [pts EXCEPT ![entry].next = free],
     free |-> entry]

\* MXUserGetPerThread(mayAlloc) called by thread tid, as one step.
MXUserGetPerThread(tid, mayAlloc) ==
    LET found == HashTable_Lookup(hashTableMem, tid) IN
    IF found # NULL
       THEN [perThread |-> found, hash |-> hashTableMem,
             pts |-> perThreads, free |-> perThreadFreeList,
             mem |-> perThreadLockMem, locks |-> recLocks]
    ELSE IF mayAlloc
       THEN LET l   == MXUserInternalSingleton(perThreadLockMem, recLocks)
                a   == MXUserAllocPerThread(perThreads, perThreadFreeList)
                ins == HashTable_LookupOrInsert(hashTableMem, tid, a.entry)
                f   == IF ins.value # a.entry
                          THEN MXUserFreePerThread(a.pts, a.free, a.entry)
                          ELSE [pts |-> a.pts, free |-> a.free]
            IN  [perThread |-> ins.value, hash |-> ins.hash,
                 pts |-> f.pts, free |-> f.free,
                 mem |-> l.mem, locks |-> l.locks]
       ELSE [perThread |-> NULL, hash |-> hashTableMem,
             pts |-> perThreads, free |-> perThreadFreeList,
             mem |-> perThreadLockMem, locks |-> recLocks]

(***************************************************************************)
(* Rank checking and tracking                                              *)
(***************************************************************************)

\* Mutant: the rank of the entry replaces the maximum so far.
RECURSIVE ThreadRankLoop_LastRank(_, _, _, _, _)
ThreadRankLoop_LastRank(pt, header, i, maxRank, foundOnce) ==
    IF i < pt.locksHeld
       THEN LET chkHdr == pt.lockArray[i + 1] IN
            ThreadRankLoop_LastRank(pt, header, i + 1, HeaderRank(chkHdr),
                                    IF chkHdr = header THEN FALSE ELSE foundOnce)
       ELSE [maxRank |-> maxRank, firstUse |-> foundOnce]

\* The loop of MXUserThreadRank from index i (0-based) on.
RECURSIVE ThreadRankLoop(_, _, _, _, _)
ThreadRankLoop(pt, header, i, maxRank, foundOnce) ==
    IF i < pt.locksHeld
       THEN LET chkHdr == pt.lockArray[i + 1] IN
            ThreadRankLoop(pt, header, i + 1,
                           MAX(HeaderRank(chkHdr), maxRank),
                           IF chkHdr = header THEN FALSE ELSE foundOnce)
       ELSE [maxRank |-> maxRank, firstUse |-> foundOnce]

\* MXUserThreadRank(perThread, header, &firstUse)
MXUserThreadRank(pt, header) ==
    ThreadRankLoop(pt, header, 0, RANK_UNRANKED, TRUE)

\* Mutant: the legacy module's rank is not merged in.
MergedMaxRank_HookIgnored(pt, header, hookRank) ==
    MXUserThreadRank(pt, header).maxRank

\* The rank an acquire is checked against: the thread's own maximum, merged
\* with the legacy module's when its rank hook is installed.
MergedMaxRank(pt, header, hookRank) ==
    LET own == MXUserThreadRank(pt, header).maxRank IN
    IF hooks["CheckRank"] # NULL THEN MAX(own, hookRank) ELSE own

\* Mutant: rank checking goes on in a panic.
RankCheckWanted_IgnoresPanic(header, checkRank) ==
    checkRank /\ HeaderRank(header) # RANK_UNRANKED

\* ul.c:756  is the rank check run at all?
RankCheckWanted(header, checkRank) ==
    checkRank /\ HeaderRank(header) # RANK_UNRANKED /\ ~MXUser_InPanic

\* Mutant: the comparison made strict (an equal rank passes).
IsRankViolation_Strict(pt, header, hookRank) ==
    /\ MXUserThreadRank(pt, header).firstUse
    /\ HeaderRank(header) < MergedMaxRank(pt, header, hookRank)

\* Mutant: the first-instance gate dropped (a recursive acquire is checked).
IsRankViolation_NoFirstUse(pt, header, hookRank) ==
    HeaderRank(header) <= MergedMaxRank(pt, header, hookRank)

\* Mutant: the comparison inverted.
IsRankViolation_Inverted(pt, header, hookRank) ==
    /\ MXUserThreadRank(pt, header).firstUse
    /\ HeaderRank(header) >= MergedMaxRank(pt, header, hookRank)

\* ul.c:783  the violation test
IsRankViolation(pt, header, hookRank) ==
    /\ MXUserThreadRank(pt, header).firstUse
    /\ HeaderRank(header) <= MergedMaxRank(pt, header, hookRank)

\* Mutant: the capacity test off by one.
HasRoom_OffByOne(pt) == pt.locksHeld <= MXUSER_MAX_LOCKS_PER_THREAD

\* ul.c:747  VERIFY(perThread->locksHeld < MXUSER_MAX_LOCKS_PER_THREAD)
HasRoom(pt) == pt.locksHeld < MXUSER_MAX_LOCKS_PER_THREAD

\* ul.c:800  perThread->lockArray[perThread->locksHeld++] = header
AddLockInstance(pt, header) ==
    [pt EXCEPT !.lockArray[pt.locksHeld + 1] = header,
               !.locksHeld = pt.locksHeld + 1]

\* What the call log keeps of an acquire.
AcquireCall(t, header, checkRank, hookAsked, hookRank) ==
    [op |-> "acquire", tid |-> t, header |-> header, checkRank |-> checkRank,
     hookAsked |-> hookAsked,
     hookRank |-> IF hookAsked THEN hookRank ELSE RANK_UNRANKED]

\* MXUserAcquisitionTracking(header, checkRank) called by thread t; hookRank
\* is what the legacy rank hook reports if it is asked.
MXUserAcquisitionTracking(t, header, checkRank, hookRank) ==
    LET g  == MXUserGetPerThread(t, TRUE)
        pt == g.pts[g.perThread]
    IN
    /\ aborted = "none"
    /\ hashTableMem' = g.hash
    /\ perThreadFreeList' = g.free
    /\ perThreadLockMem' = g.mem
    /\ recLocks' = g.locks
    /\ hashTableAllocated' = TRUE
    /\ UNCHANGED <<hooks, perThreadLockOwner, singletonVars, getVars, sigVars,
                   extraVars>>
    /\ IF ~HasRoom(pt)
          THEN /\ aborted' = "ResourceExhaustion"
               /\ perThreads' = g.pts
               /\ lastCall' = AcquireCall(t, header, checkRank, FALSE, hookRank)
               /\ UNCHANGED <<mxInPanic, legacyInPanic, loopCounter, dumped,
                              rankViolations, outstanding>>
       ELSE IF RankCheckWanted(header, checkRank)
               /\ IsRankViolation(pt, header, hookRank)
          THEN /\ rankViolations' = rankViolations + 1
               /\ MXUserDumpAndPanic(header, "RankViolation")
               /\ perThreads' = g.pts
               /\ lastCall' = AcquireCall(t, header, checkRank,
                                             hooks["CheckRank"] # NULL, hookRank)
               /\ UNCHANGED outstanding
          ELSE /\ perThreads' = [g.pts EXCEPT ![g.perThread] = AddLockInstance(pt, header)]
               /\ outstanding' = [outstanding EXCEPT ![t][header] = @ + 1]
               /\ lastCall' = AcquireCall(t, header, checkRank,
                                             RankCheckWanted(header, checkRank)
                                                /\ hooks["CheckRank"] # NULL,
                                             hookRank)
               /\ UNCHANGED <<mxInPanic, legacyInPanic, loopCounter, dumped,
                              aborted, rankViolations>>

\* Mutant: the search finds the highest index holding the header.
ReleaseSearch_Highest(pt, header, i) ==
    LET found == {k \in i..(pt.locksHeld - 1) : pt.lockArray[k + 1] = header} IN
    IF found = {}
       THEN pt.locksHeld
       ELSE CHOOSE k \in found : \A m \in found : m <= k

\* Mutant: the search loop stops one entry early and takes the last entry
\* for the header.
RECURSIVE ReleaseSearch_LastTaken(_, _, _)
ReleaseSearch_LastTaken(pt, header, i) ==
    IF i < pt.locksHeld - 1
       THEN IF pt.lockArray[i + 1] = header
               THEN i
               ELSE ReleaseSearch_LastTaken(pt, header, i + 1)
       ELSE i

\* ul.c:854-858  the search loop of MXUserReleaseTracking from index i on:
\* the first index holding header, locksHeld when there is none.
RECURSIVE ReleaseSearch(_, _, _)
ReleaseSearch(pt, header, i) ==
    IF i < pt.locksHeld
       THEN IF pt.lockArray[i + 1] = header
               THEN i
               ELSE ReleaseSearch(pt, header, i + 1)
       ELSE i

\* ul.c:874-876  for (j = i + 1; j < locksHeld; j++) lockArray[i++] = lockArray[j]
RECURSIVE ReleaseShift(_, _, _, _)
ReleaseShift(lockArray, i, j, locksHeld) ==
    IF j < locksHeld
       THEN ReleaseShift([lockArray EXCEPT ![i + 1] = lockArray[j + 1]],
                         i + 1, j + 1, locksHeld)
       ELSE lockArray

\* Mutant: the later entries are not shifted down.
RemoveLockInstance_NoShift(pt, i) ==
    [pt EXCEPT !.lockArray[pt.locksHeld] = NULL,
               !.locksHeld = pt.locksHeld - 1]

\* ul.c:869-880  remove the entry at index i
RemoveLockInstance(pt, i) ==
    LET lastEntry == pt.locksHeld - 1
        shifted   == IF i < lastEntry
                        THEN ReleaseShift(pt.lockArray, i, i + 1, pt.locksHeld)
                        ELSE pt.lockArray
    IN  [pt EXCEPT !.lockArray = [shifted EXCEPT ![lastEntry + 1] = NULL],
                   !.locksHeld = pt.locksHeld - 1]

ReleaseCall(t, header) ==
    [op |-> "release", tid |-> t, header |-> header]

\* MXUserReleaseTracking(header) called by thread t.
MXUserReleaseTracking(t, header) ==
    LET g == MXUserGetPerThread(t, FALSE) IN
    /\ aborted = "none"
    /\ lastCall' = ReleaseCall(t, header)
    /\ hashTableMem' = g.hash
    /\ perThreadFreeList' = g.free
    /\ hashTableAllocated' = TRUE
    /\ UNCHANGED <<hooks, lockVars, rankViolations, singletonVars, getVars,
                   sigVars, extraVars>>
    /\ IF g.perThread = NULL
          THEN /\ MXUserDumpAndPanic(header, "ReleaseNoPerThread")
               /\ perThreads' = g.pts
               /\ UNCHANGED outstanding
       ELSE LET pt == g.pts[g.perThread]
                i  == ReleaseSearch(pt, header, 0)
            IN
            IF i >= pt.locksHeld
               THEN /\ MXUserDumpAndPanic(header, "ReleaseNotFound")
                    /\ perThreads' = g.pts
                    /\ UNCHANGED outstanding
               ELSE /\ perThreads' = [g.pts EXCEPT ![g.perThread] = RemoveLockInstance(pt, i)]
                    /\ outstanding' = [outstanding EXCEPT ![t][header] = @ - 1]
                    /\ UNCHANGED <<mxInPanic, legacyInPanic, loopCounter,
                                   dumped, aborted>>

(***************************************************************************)
(* Panic entry and hook installation                                       *)
(***************************************************************************)

\* MXUser_SetInPanic()
MXUser_SetInPanic ==
    /\ aborted = "none"
    /\ SetInPanicEffect
    /\ lastCall' = [op |-> "setInPanic"]
    /\ UNCHANGED <<hooks, loopCounter, dumped, aborted, rankViolations,
                   storeVars, lockVars, outstanding, singletonVars, getVars, sigVars, hashTableAllocated, extraVars>>

\* The legacy MX module enters its own panic state (seen through the
\* MXUserMX_InPanic hook).
MX_LegacyPanic ==
    /\ aborted = "none"
    /\ hooks["InPanic"] # NULL
    /\ ~legacyInPanic
    /\ legacyInPanic' = TRUE
    /\ lastCall' = [op |-> "legacyPanic"]
    /\ UNCHANGED <<mxInPanic, hooks, loopCounter, dumped, aborted,
                   rankViolations, storeVars, lockVars, outstanding,
                   singletonVars, getVars, sigVars, hashTableAllocated, extraVars>>

\* ul.c:382-390  no hook is installed yet
NoHookInstalled == \A s \in HookSlots : hooks[s] = NULL

\* Mutant: the last hook left out of the comparison.
HooksMatch_FirstEight(the) ==
    \A s \in HookSlots \ {"InPanic"} : hooks[s] = the[s]

\* ul.c:402-411  the hooks offered are the hooks installed
HooksMatch(the) == \A s \in HookSlots : hooks[s] = the[s]

\* MXUserInstallMxHooks(theLockListFunc, ..., theInPanicFunc), the nine
\* arguments given as a function of the slot.
MXUserInstallMxHooks(the) ==
    /\ aborted = "none"
    /\ IF NoHookInstalled
          THEN /\ hooks' = the
               /\ UNCHANGED aborted
          ELSE /\ aborted' = IF HooksMatch(the) THEN aborted ELSE "HookAssert"
               /\ UNCHANGED hooks
    /\ lastCall' = [op |-> "installMxHooks", the |-> the]
    /\ UNCHANGED <<panicVars, storeVars, lockVars, outstanding,
                   singletonVars, getVars, sigVars, hashTableAllocated, extraVars>>

(***************************************************************************)
(* The queries: MXUserListLocks, MXUser_IsCurThreadHoldingLocks,           *)
(* MXUserCurrentRank                                                       *)
(***************************************************************************)

\* Mutant: the queries ask for a record to be allocated.
QueryPerThread_MayAlloc(t) == MXUserGetPerThread(t, TRUE)

\* ul.c:601, 635, 711  perThread = MXUserGetPerThread(FALSE)
QueryPerThread(t) == MXUserGetPerThread(t, FALSE)

\* What a query by thread t does to the state: what its MXUserGetPerThread
\* does, and the record of the call.
QueryEffect(t, call) ==
    LET g == QueryPerThread(t) IN
    /\ aborted = "none"
    /\ lastCall' = call
    /\ hashTableAllocated' = TRUE
    /\ hashTableMem' = g.hash
    /\ perThreads' = g.pts
    /\ perThreadFreeList' = g.free
    /\ perThreadLockMem' = g.mem
    /\ recLocks' = g.locks
    /\ UNCHANGED <<panicVars, hooks, aborted, perThreadLockOwner, outstanding,
                   singletonVars, getVars, sigVars, extraVars>>

\* MXUserListLocks() called by thread t: the headers it prints.
MXUserListLocks(t) ==
    LET g == QueryPerThread(t) IN
    QueryEffect(t, [op |-> "listLocks", tid |-> t,
                    listed |-> IF g.perThread # NULL
                                  THEN Held(g.pts[g.perThread])
                                  ELSE <<>>])

\* MXUser_IsCurThreadHoldingLocks() called by thread t.
MXUser_IsCurThreadHoldingLocks(t) ==
    LET g == QueryPerThread(t) IN
    QueryEffect(t, [op |-> "isHolding", tid |-> t,
                    holding |-> IF g.perThread = NULL
                                   THEN FALSE
                                   ELSE g.pts[g.perThread].locksHeld # 0])

\* MXUserCurrentRank() called by thread t.
MXUserCurrentRank(t) ==
    LET g == QueryPerThread(t) IN
    QueryEffect(t, [op |-> "currentRank", tid |-> t,
                    rank |-> IF g.perThread = NULL
                                THEN RANK_UNRANKED
                                ELSE MXUserThreadRank(g.pts[g.perThread],
                                                      NULL).maxRank])

(***************************************************************************)
(* Spec: one thread issuing tracking calls                                 *)
(***************************************************************************)

\* What the legacy rank hook may report when asked (nothing asks it while it
\* is not installed).
HookReports == IF hooks["CheckRank"] # NULL THEN Ranks ELSE {RANK_UNRANKED}

NextOver(H) ==
    \/ \E t \in TrackThreads, h \in H, c \in BOOLEAN, r \in HookReports :
          MXUserAcquisitionTracking(t, h, c, r)
    \/ \E t \in TrackThreads, h \in H : MXUserReleaseTracking(t, h)
    \/ MXUser_SetInPanic
    \/ MX_LegacyPanic
    \/ MXUserInstallMxHooks(LegacyHooks)

Next == NextOver(TrackHeaders)

NextChain == NextOver(ChainHeaders)

Spec == Init /\ [][Next]_vars

SpecChain == Init /\ [][NextChain]_vars

\* Rank-checked acquires of ranked locks, and releases; no panic, no hook.
RankedHeaders == Headers \ {"U"}

NextRanked ==
    \/ \E t \in TrackThreads, h \in RankedHeaders :
          MXUserAcquisitionTracking(t, h, TRUE, RANK_UNRANKED)
    \/ \E t \in TrackThreads, h \in RankedHeaders : MXUserReleaseTracking(t, h)

SpecRanked == Init /\ [][NextRanked]_vars

\* The threads that ask: the one that takes locks, and one that never does.
QueryThreads == {"t1", "t2"}

NextQueries ==
    \/ NextOver(AbortHeaders)
    \/ \E t \in QueryThreads : MXUserListLocks(t)
    \/ \E t \in QueryThreads : MXUser_IsCurThreadHoldingLocks(t)
    \/ \E t \in QueryThreads : MXUserCurrentRank(t)

SpecQueries == Init /\ [][NextQueries]_vars

(***************************************************************************)
(* MXUserInternalSingleton(&perThreadLockMem), one atomic access a step    *)
(***************************************************************************)

\* Calls of MXUserInternalSingleton a caller makes at most.
MaxSingletonCalls == 2

NotSingletonVars ==
    <<panicVars, hooks, aborted, storeVars, perThreadLockOwner, outstanding,
      lastCall, getVars, sigVars, hashTableAllocated, extraVars>>

\* ul.c:116-118  lock = Atomic_ReadPtr(storage); if (lock == NULL) ...
S_Read(c) ==
    /\ sPc[c] = "idle"
    /\ Len(sRet[c]) < MaxSingletonCalls
    /\ sLock' = [sLock EXCEPT ![c] = perThreadLockMem]
    /\ sPc' = [sPc EXCEPT ![c] = IF perThreadLockMem = NULL THEN "init" ELSE "ret"]
    /\ UNCHANGED <<perThreadLockMem, recLocks, sNewLock, sRet, NotSingletonVars>>

\* ul.c:119-121  newLock = Util_SafeMalloc(...); if (MXRecLockInit(newLock))
S_Init(c, initOk) ==
    /\ sPc[c] = "init"
    /\ sNewLock' = [sNewLock EXCEPT ![c] = NewAddress(recLocks)]
    /\ recLocks' = WithNew(recLocks, NewRecLock(initOk))
    /\ sPc' = [sPc EXCEPT ![c] = IF initOk THEN "cas" ELSE "initFailed"]
    /\ UNCHANGED <<perThreadLockMem, sLock, sRet, NotSingletonVars>>

\* Mutant: the candidate is written without comparing.
S_CompareAndPublish_BlindWrite(c) ==
    /\ sPc[c] = "cas"
    /\ sLock' = [sLock EXCEPT ![c] = NULL]
    /\ perThreadLockMem' = sNewLock[c]
    /\ sPc' = [sPc EXCEPT ![c] = "reread"]
    /\ UNCHANGED <<recLocks, sNewLock, sRet, NotSingletonVars>>

\* ul.c:122-124  lock = Atomic_ReadIfEqualWritePtr(storage, NULL, newLock)
S_CompareAndPublish(c) ==
    /\ sPc[c] = "cas"
    /\ sLock' = [sLock EXCEPT ![c] = perThreadLockMem]
    /\ perThreadLockMem' =
          IF perThreadLockMem = NULL THEN sNewLock[c] ELSE perThreadLockMem
    /\ sPc' = [sPc EXCEPT ![c] = IF perThreadLockMem # NULL THEN "destroy" ELSE "reread"]
    /\ UNCHANGED <<recLocks, sNewLock, sRet, NotSingletonVars>>

\* ul.c:125-126  MXRecLockDestroy(newLock); free(newLock)
S_DestroyLoser(c) ==
    /\ sPc[c] = "destroy"
    /\ recLocks' = [recLocks EXCEPT ![sNewLock[c]].destroyed = @ + 1,
                                    ![sNewLock[c]].freed = @ + 1]
    /\ sPc' = [sPc EXCEPT ![c] = "ret"]
    /\ UNCHANGED <<perThreadLockMem, sLock, sNewLock, sRet, NotSingletonVars>>

\* ul.c:128  lock = Atomic_ReadPtr(storage)
S_Reread(c) ==
    /\ sPc[c] = "reread"
    /\ sLock' = [sLock EXCEPT ![c] = perThreadLockMem]
    /\ sPc' = [sPc EXCEPT ![c] = "ret"]
    /\ UNCHANGED <<perThreadLockMem, recLocks, sNewLock, sRet, NotSingletonVars>>

\* ul.c:131-132  free(newLock); lock = Atomic_ReadPtr(storage)
S_InitFailed(c) ==
    /\ sPc[c] = "initFailed"
    /\ recLocks' = [recLocks EXCEPT ![sNewLock[c]].freed = @ + 1]
    /\ sLock' = [sLock EXCEPT ![c] = perThreadLockMem]
    /\ sPc' = [sPc EXCEPT ![c] = "ret"]
    /\ UNCHANGED <<perThreadLockMem, sNewLock, sRet, NotSingletonVars>>

\* ul.c:136  return lock
S_Return(c) ==
    /\ sPc[c] = "ret"
    /\ sRet' = [sRet EXCEPT ![c] = Append(@, sLock[c])]
    /\ sPc' = [sPc EXCEPT ![c] = "idle"]
    /\ sNewLock' = [sNewLock EXCEPT ![c] = NULL]
    /\ UNCHANGED <<perThreadLockMem, recLocks, sLock, NotSingletonVars>>

NextSingleton ==
    \E c \in Callers :
       \/ S_Read(c)
       \/ \E initOk \in BOOLEAN : S_Init(c, initOk)
       \/ S_CompareAndPublish(c)
       \/ S_DestroyLoser(c)
       \/ S_Reread(c)
       \/ S_InitFailed(c)
       \/ S_Return(c)

SpecSingleton == Init /\ [][NextSingleton]_vars

(***************************************************************************)
(* MXUserGetPerThread, one access to shared state a step                   *)
(***************************************************************************)

\* Calls of MXUserGetPerThread(TRUE) a caller makes at most.
MaxGetCalls == 2

\* The thread identities of the callers: each caller a thread of its own, or
\* (what ul.c:559-570 provides for) two callers under one identity.
TidAssignments == {OwnTids, [OwnTids EXCEPT !["c3"] = "t1"]}

NotGetVars ==
    <<panicVars, hooks, aborted, outstanding, lastCall, singletonVars, sigVars,
      extraVars>>

\* Mutant: the lookup never finds the entry.
G_Lookup_NeverFound(c, mayAlloc) ==
    /\ aborted = "none"
    /\ gPc[c] = "idle"
    /\ mayAlloc => Len(gResult[c]) < MaxGetCalls
    /\ hashTableAllocated' = TRUE
    /\ gPerThread' = [gPerThread EXCEPT ![c] = NULL]
    /\ gPc' = [gPc EXCEPT ![c] = IF mayAlloc THEN "allocLock" ELSE "retQuery"]
    /\ UNCHANGED <<storeVars, lockVars, tidOf, gNewEntry, gResult, NotGetVars>>

\* ul.c:548-556, 571-573  the lookup; perThread stays NULL when there is no
\* entry.
G_Lookup(c, mayAlloc) ==
    LET found == HashTable_Lookup(hashTableMem, tidOf[c]) IN
    /\ aborted = "none"
    /\ gPc[c] = "idle"
    /\ mayAlloc => Len(gResult[c]) < MaxGetCalls
    /\ hashTableAllocated' = TRUE
    /\ gPerThread' = [gPerThread EXCEPT ![c] = found]
    /\ gPc' = [gPc EXCEPT ![c] =
                 IF found = NULL /\ mayAlloc THEN "allocLock"
                 ELSE IF mayAlloc THEN "ret" ELSE "retQuery"]
    /\ UNCHANGED <<storeVars, lockVars, tidOf, gNewEntry, gResult, NotGetVars>>

\* ul.c:459-464  MXUserAllocPerThread: get the internal lock and acquire it.
\* When the lock is yet to be made and its MXRecLockInit fails, the singleton
\* returns NULL and ASSERT(perThreadLock) fails.
G_AllocLock(c, initOk) ==
    LET l == MXUserInternalSingleton(perThreadLockMem, recLocks) IN
    /\ aborted = "none"
    /\ gPc[c] = "allocLock"
    /\ IF perThreadLockMem = NULL /\ ~initOk
          THEN /\ recLocks' = WithNew(recLocks,
                                      [NewRecLock(FALSE) EXCEPT !.freed = 1])
               /\ aborted' = "AllocAssert"
               /\ UNCHANGED <<perThreadLockOwner, perThreadLockMem, gPc>>
          ELSE /\ perThreadLockOwner = NULL
               /\ perThreadLockOwner' = c
               /\ perThreadLockMem' = l.mem
               /\ recLocks' = l.locks
               /\ gPc' = [gPc EXCEPT ![c] = "allocTake"]
               /\ UNCHANGED aborted
    /\ UNCHANGED <<storeVars, tidOf, gNewEntry, gPerThread, gResult, panicVars,
                   hooks, outstanding, lastCall, singletonVars, sigVars, hashTableAllocated, extraVars>>

\* ul.c:466-479  take a structure, release the lock, zero the structure.
G_AllocTake(c) ==
    LET a == MXUserAllocPerThread(perThreads, perThreadFreeList) IN
    /\ aborted = "none"
    /\ gPc[c] = "allocTake"
    /\ perThreadLockOwner = c
    /\ gNewEntry' = [gNewEntry EXCEPT ![c] = a.entry]
    /\ perThreads' = a.pts
    /\ perThreadFreeList' = a.free
    /\ perThreadLockOwner' = NULL
    /\ gPc' = [gPc EXCEPT ![c] = "insert"]
    /\ UNCHANGED <<hashTableMem, perThreadLockMem, recLocks, tidOf, gPerThread,
                   gResult, NotGetVars, hashTableAllocated>>

\* Mutant: the new entry is used without being inserted.
G_Insert_NotInserted(c) ==
    /\ aborted = "none"
    /\ gPc[c] = "insert"
    /\ gPerThread' = [gPerThread EXCEPT ![c] = gNewEntry[c]]
    /\ gPc' = [gPc EXCEPT ![c] = "ret"]
    /\ UNCHANGED <<storeVars, lockVars, tidOf, gNewEntry, gResult, NotGetVars, hashTableAllocated>>

\* ul.c:565-568  perThread = HashTable_LookupOrInsert(hash, tid, newEntry)
G_Insert(c) ==
    LET ins == HashTable_LookupOrInsert(hashTableMem, tidOf[c], gNewEntry[c]) IN
    /\ aborted = "none"
    /\ gPc[c] = "insert"
    /\ hashTableMem' = ins.hash
    /\ gPerThread' = [gPerThread EXCEPT ![c] = ins.value]
    /\ gPc' = [gPc EXCEPT ![c] =
                 IF ins.value # gNewEntry[c] THEN "freeLock" ELSE "ret"]
    /\ UNCHANGED <<perThreads, perThreadFreeList, lockVars, tidOf, gNewEntry,
                   gResult, NotGetVars, hashTableAllocated>>

\* ul.c:509-513  MXUserFreePerThread: get the internal lock and acquire it.
G_FreeLock(c) ==
    LET l == MXUserInternalSingleton(perThreadLockMem, recLocks) IN
    /\ aborted = "none"
    /\ gPc[c] = "freeLock"
    /\ perThreadLockOwner = NULL
    /\ perThreadLockOwner' = c
    /\ perThreadLockMem' = l.mem
    /\ recLocks' = l.locks
    /\ gPc' = [gPc EXCEPT ![c] = "freePush"]
    /\ UNCHANGED <<storeVars, tidOf, gNewEntry, gPerThread, gResult, NotGetVars, hashTableAllocated>>

\* Mutant: the record that won the race is the one put on the free list.
G_FreePush_Winner(c) ==
    LET f == MXUserFreePerThread(perThreads, perThreadFreeList, gPerThread[c]) IN
    /\ aborted = "none"
    /\ gPc[c] = "freePush"
    /\ perThreadLockOwner = c
    /\ perThreads' = f.pts
    /\ perThreadFreeList' = f.free
    /\ perThreadLockOwner' = NULL
    /\ gPc' = [gPc EXCEPT ![c] = "ret"]
    /\ UNCHANGED <<hashTableMem, perThreadLockMem, recLocks, tidOf, gNewEntry,
                   gPerThread, gResult, NotGetVars, hashTableAllocated>>

\* ul.c:515-518  push the structure on the free list, release the lock.
G_FreePush(c) ==
    LET f == MXUserFreePerThread(perThreads, perThreadFreeList, gNewEntry[c]) IN
    /\ aborted = "none"
    /\ gPc[c] = "freePush"
    /\ perThreadLockOwner = c
    /\ perThreads' = f.pts
    /\ perThreadFreeList' = f.free
    /\ perThreadLockOwner' = NULL
    /\ gPc' = [gPc EXCEPT ![c] = "ret"]
    /\ UNCHANGED <<hashTableMem, perThreadLockMem, recLocks, tidOf, gNewEntry,
                   gPerThread, gResult, NotGetVars, hashTableAllocated>>

\* ul.c:576  return perThread (mayAlloc TRUE)
G_Return(c) ==
    /\ aborted = "none"
    /\ gPc[c] = "ret"
    /\ gResult' = [gResult EXCEPT ![c] = Append(@, gPerThread[c])]
    /\ gNewEntry' = [gNewEntry EXCEPT ![c] = NULL]
    /\ gPc' = [gPc EXCEPT ![c] = "idle"]
    /\ UNCHANGED <<storeVars, lockVars, tidOf, gPerThread, NotGetVars, hashTableAllocated>>

\* ul.c:576  return perThread (mayAlloc FALSE)
G_ReturnQuery(c) ==
    /\ aborted = "none"
    /\ gPc[c] = "retQuery"
    /\ gPc' = [gPc EXCEPT ![c] = "idle"]
    /\ UNCHANGED <<storeVars, lockVars, tidOf, gNewEntry, gPerThread, gResult,
                   NotGetVars, hashTableAllocated>>

NextPerThread ==
    \E c \in Callers :
       \/ \E mayAlloc \in BOOLEAN : G_Lookup(c, mayAlloc)
       \/ \E initOk \in BOOLEAN : G_AllocLock(c, initOk)
       \/ G_AllocTake(c)
       \/ G_Insert(c)
       \/ G_FreeLock(c)
       \/ G_FreePush(c)
       \/ G_Return(c)
       \/ G_ReturnQuery(c)

InitPerThread == \E tids \in TidAssignments : InitAt(tids)

SpecPerThread == InitPerThread /\ [][NextPerThread]_vars

(***************************************************************************)
(* Signatures: MXUserSyndrome, MXUserGetSignature, MXUserValidateHeader    *)
(***************************************************************************)

\* A uint32 is the function of its 32 bits, bit 1 the least significant.
Zero32 == [i \in 1..32 |-> FALSE]

AllOnes32 == [i \in 1..32 |-> TRUE]

\* The uint32 of a natural number below 2^31.
UInt32(n) == [i \in 1..32 |-> IF i = 32 THEN FALSE ELSE (n \div 2^(i-1)) % 2 = 1]

BitAnd(a, b) == [i \in 1..32 |-> a[i] /\ b[i]]

BitOr(a, b) == [i \in 1..32 |-> a[i] \/ b[i]]

\* a << k, the bits shifted out dropped
ShiftLeft(a, k) == [i \in 1..32 |-> IF i > k THEN a[i-k] ELSE FALSE]

\* a + 1 modulo 2^32
Increment(a) == [i \in 1..32 |-> a[i] # (\A j \in 1..(i-1) : a[j])]

\* 0x0FFFFFFF
SyndromeMask == [i \in 1..32 |-> i <= 28]

MXUSER_TYPE_NEVER_USE == 0

\* ul.c:231-232  the object types MXUserGetSignature accepts
ValidTypes == {T \in 0..15 : T # MXUSER_TYPE_NEVER_USE}

\* The object types callers pass: the valid ones and one either side of the
\* range.
ObjectTypes == 0..16

\* What time(NULL) & 0xFFFFFFFF or GetTickCount() may read.
ClockValues ==
    {Zero32, UInt32(1), UInt32(268435456), UInt32(268435455), AllOnes32,
     UInt32(1762041600)}

\* The header that is constructed and validated.
SigHeaders == {"A"}

\* What MXUserAllocSerialNumber may have put in a header; 0 is a header whose
\* serial number was never set.
SerialNumbers == {0, 1}

\* MXUserSyndrome() with syndromeMem = mem and the clock reading clock: the
\* value returned and syndromeMem afterwards.
MXUserSyndrome(mem, clock) ==
    LET fresh == IF clock = Zero32 THEN Increment(clock) ELSE clock
        after == IF mem = Zero32 THEN fresh ELSE mem
    IN  [syndrome |-> after, mem |-> after]

\* Mutant: the syndrome is or-ed in without the mask.
MXUserGetSignature_SyndromeNotMasked(mem, clock, objectType) ==
    LET s == MXUserSyndrome(mem, clock) IN
    [asserted  |-> objectType \in ValidTypes,
     signature |-> BitOr(s.syndrome, ShiftLeft(UInt32(objectType), 28)),
     mem       |-> s.mem]

\* Mutant: the object type is or-ed in without the shift.
MXUserGetSignature_TypeNotShifted(mem, clock, objectType) ==
    LET s == MXUserSyndrome(mem, clock) IN
    [asserted  |-> objectType \in ValidTypes,
     signature |-> BitOr(BitAnd(s.syndrome, SyndromeMask), UInt32(objectType)),
     mem       |-> s.mem]

\* MXUserGetSignature(objectType): whether its first ASSERT holds, the
\* signature, and syndromeMem afterwards.
MXUserGetSignature(mem, clock, objectType) ==
    LET s == MXUserSyndrome(mem, clock) IN
    [asserted  |-> objectType \in ValidTypes,
     signature |-> BitOr(BitAnd(s.syndrome, SyndromeMask),
                         ShiftLeft(UInt32(objectType), 28)),
     mem       |-> s.mem]

\* A lock object is constructed: its header gets the signature of its type
\* and a serial number.
ConstructHeader(h, objectType, clock, serial) ==
    LET sig == MXUserGetSignature(syndromeMem, clock, objectType) IN
    /\ aborted = "none"
    /\ signedAs[h] = MXUSER_TYPE_NEVER_USE
    /\ syndromeMem' = sig.mem
    /\ headers' = [headers EXCEPT ![h] =
                     [signature |-> sig.signature, serialNumber |-> serial,
                      badHeader |-> FALSE]]
    /\ signedAs' = [signedAs EXCEPT ![h] = objectType]
    /\ lastCall' = [op |-> "constructHeader", header |-> h,
                    objectType |-> objectType]
    /\ UNCHANGED <<panicVars, hooks, aborted, storeVars, lockVars, outstanding,
                   singletonVars, getVars, hashTableAllocated, extraVars>>

\* MXUserValidateHeader(header, objectType).  Code running on the panic path
\* validates headers too (ul.c:931-933), so the call is not limited to the
\* time before the first abort.
MXUserValidateHeader(h, objectType, clock) ==
    LET expected == MXUserGetSignature(syndromeMem, clock, objectType) IN
    /\ signedAs[h] # MXUSER_TYPE_NEVER_USE
    /\ lastCall' = [op |-> "validateHeader", header |-> h,
                    objectType |-> objectType]
    /\ UNCHANGED <<rankViolations, hooks, storeVars, lockVars, outstanding,
                   singletonVars, getVars, signedAs, hashTableAllocated,
                   extraVars>>
    /\ IF ~expected.asserted
          THEN /\ aborted' = "SignatureAssert"
               /\ UNCHANGED <<mxInPanic, legacyInPanic, loopCounter, dumped,
                              syndromeMem, headers>>
          ELSE /\ syndromeMem' = expected.mem
               /\ IF headers[h].badHeader
                     THEN UNCHANGED <<mxInPanic, legacyInPanic, loopCounter,
                                      dumped, aborted, headers>>
                     ELSE IF headers[h].signature # expected.signature
                     THEN /\ headers' = [headers EXCEPT ![h].badHeader = TRUE]
                          /\ MXUserDumpAndPanic(h, "SignatureFailure")
                     ELSE IF headers[h].serialNumber = 0
                     THEN /\ headers' = [headers EXCEPT ![h].badHeader = TRUE]
                          /\ MXUserDumpAndPanic(h, "InvalidSerial")
                     ELSE UNCHANGED <<mxInPanic, legacyInPanic, loopCounter,
                                      dumped, aborted, headers>>

NextSignature ==
    \/ \E h \in SigHeaders, T \in ValidTypes, clock \in ClockValues,
          serial \in SerialNumbers : ConstructHeader(h, T, clock, serial)
    \/ \E h \in SigHeaders, T \in ObjectTypes, clock \in ClockValues :
          MXUserValidateHeader(h, T, clock)

SpecSignature == Init /\ [][NextSignature]_vars

(***************************************************************************)
(* MXUserSyndrome step by step, several threads at once                    *)
(***************************************************************************)

\* Calls of MXUserSyndrome per caller.
MaxSyndromeCalls == 2

\* What time(NULL) & 0xFFFFFFFF or GetTickCount() may read: zero, and values
\* that differ between two callers.
SyndromeClocks == {Zero32, UInt32(2), AllOnes32}

NotSyndromeVars == <<panicVars, hooks, storeVars, lockVars, outstanding,
                     lastCall, singletonVars, getVars, headers, signedAs,
                     hashTableAllocated, dpStack>>

\* ul.c:176-178  syndrome = Atomic_Read(&syndromeMem); if (syndrome == 0)
Y_Read(c) ==
    /\ aborted = "none"
    /\ yPc[c] = "idle"
    /\ Len(yRet[c]) < MaxSyndromeCalls
    /\ ySyndrome' = [ySyndrome EXCEPT ![c] = syndromeMem]
    /\ yPc' = [yPc EXCEPT ![c] = IF syndromeMem = Zero32 THEN "clock" ELSE "ret"]
    /\ UNCHANGED <<syndromeMem, yRet, aborted, NotSyndromeVars>>

\* ul.c:179-196  the time source is read; a zero reading is incremented
Y_Clock(c, clock) ==
    /\ aborted = "none"
    /\ yPc[c] = "clock"
    /\ ySyndrome' = [ySyndrome EXCEPT
                       ![c] = IF clock = Zero32 THEN Increment(clock) ELSE clock]
    /\ yPc' = [yPc EXCEPT ![c] = "publish"]
    /\ UNCHANGED <<syndromeMem, yRet, aborted, NotSyndromeVars>>

\* Mutant: a write whatever syndromeMem holds.
Y_Publish_BlindWrite(c) ==
    /\ aborted = "none"
    /\ yPc[c] = "publish"
    /\ syndromeMem' = ySyndrome[c]
    /\ yPc' = [yPc EXCEPT ![c] = "reread"]
    /\ UNCHANGED <<ySyndrome, yRet, aborted, NotSyndromeVars>>

\* ul.c:199  Atomic_ReadIfEqualWrite(&syndromeMem, 0, syndrome)
Y_Publish(c) ==
    /\ aborted = "none"
    /\ yPc[c] = "publish"
    /\ syndromeMem' = IF syndromeMem = Zero32 THEN ySyndrome[c] ELSE syndromeMem
    /\ yPc' = [yPc EXCEPT ![c] = "reread"]
    /\ UNCHANGED <<ySyndrome, yRet, aborted, NotSyndromeVars>>

\* ul.c:201  syndrome = Atomic_Read(&syndromeMem)
Y_Reread(c) ==
    /\ aborted = "none"
    /\ yPc[c] = "reread"
    /\ ySyndrome' = [ySyndrome EXCEPT ![c] = syndromeMem]
    /\ yPc' = [yPc EXCEPT ![c] = "ret"]
    /\ UNCHANGED <<syndromeMem, yRet, aborted, NotSyndromeVars>>

\* ul.c:204-206  ASSERT(syndrome); return syndrome
Y_Return(c) ==
    /\ aborted = "none"
    /\ yPc[c] = "ret"
    /\ yPc' = [yPc EXCEPT ![c] = "idle"]
    /\ IF ySyndrome[c] = Zero32
          THEN aborted' = "SyndromeAssert" /\ UNCHANGED yRet
          ELSE /\ yRet' = [yRet EXCEPT ![c] = Append(@, ySyndrome[c])]
               /\ UNCHANGED aborted
    /\ UNCHANGED <<syndromeMem, ySyndrome, NotSyndromeVars>>

NextSyndrome ==
    \/ \E c \in Callers : Y_Read(c)
    \/ \E c \in Callers, clock \in SyndromeClocks : Y_Clock(c, clock)
    \/ \E c \in Callers : Y_Publish(c)
    \/ \E c \in Callers : Y_Reread(c)
    \/ \E c \in Callers : Y_Return(c)

SpecSyndrome == Init /\ [][NextSyndrome]_vars

(***************************************************************************)
(* MXUserInstallMxHooks called with any set of hooks                       *)
(***************************************************************************)

\* A second implementation's functions in every slot.
OtherHooks == [s \in HookSlots |-> "other"]

\* The hook sets callers pass: none, the legacy module's, another module's,
\* and the legacy module's with one slot empty or another module's.
HookInputs ==
    {NoHooks, LegacyHooks, OtherHooks}
       \cup {[LegacyHooks EXCEPT ![s] = v] : s \in HookSlots, v \in {NULL, "other"}}

NextHooks == \E the \in HookInputs : MXUserInstallMxHooks(the)

SpecHooks == Init /\ [][NextHooks]_vars

(***************************************************************************)
(* MXUserDumpAndPanic step by step, re-entered from dump callbacks and     *)
(* from Panic                                                              *)
(***************************************************************************)

\* Calls of MXUserDumpAndPanic a thread has in progress at most.
MaxPanicCalls == 7

\* The thread the panic loops in.
PanicThreads == {"t1"}

PanicHeaders == {"A", "B"}

NotPanicVars ==
    <<rankViolations, hooks, storeVars, lockVars, outstanding, lastCall,
      singletonVars, getVars, sigVars, hashTableAllocated, yPc, ySyndrome, yRet>>

\* Thread t is at pc in its innermost call.
InnermostAt(t, pc) ==
    dpStack[t] # <<>> /\ dpStack[t][Len(dpStack[t])].pc = pc

\* The innermost call of thread t moves to pc, its local counter value n.
InnermostTo(t, pc, n) ==
    [dpStack EXCEPT ![t][Len(dpStack[t])].pc = pc,
                    ![t][Len(dpStack[t])].n = n]

\* The calls of thread t after it has made one more from inside a dump
\* callback or Panic: the call that was innermost never runs again, as the new
\* call ends in Panic, which does not return.
Suspended(t) ==
    [i \in DOMAIN dpStack[t] |-> [dpStack[t][i] EXCEPT !.pc = "suspended"]]

\* Thread t enters MXUserDumpAndPanic(header, ...) and loads loopCounter.
EnterDumpAndPanic(t, header) ==
    [dpStack EXCEPT ![t] =
        Append(Suspended(t), [header |-> header, pc |-> "store",
                              n |-> loopCounter])]

\* ul.c:293-304  thread t calls MXUserDumpAndPanic(header, ...), from outside
\* or from inside a dump callback or Panic, and loads loopCounter.
DP_Call(t, header) ==
    /\ Len(dpStack[t]) < MaxPanicCalls
    /\ dpStack[t] # <<>> => (InnermostAt(t, "inDump") \/ InnermostAt(t, "inPanic"))
    /\ dpStack' = EnterDumpAndPanic(t, header)
    /\ UNCHANGED <<mxInPanic, legacyInPanic, loopCounter, dumped, aborted,
                   NotPanicVars>>

\* Mutant: the counter is compared before it is incremented.
DP_Store_CompareFirst(t) ==
    LET n == dpStack[t][Len(dpStack[t])].n IN
    /\ InnermostAt(t, "store")
    /\ loopCounter' = n + 1
    /\ dpStack' = InnermostTo(t, IF n > MXUSER_MAX_LOOP
                                    THEN "setInPanic" ELSE "dump", n + 1)
    /\ UNCHANGED <<mxInPanic, legacyInPanic, dumped, aborted, NotPanicVars>>

\* ul.c:304  ++loopCounter > MXUSER_MAX_LOOP: the store of the incremented
\* value and the comparison.
DP_Store(t) ==
    LET n == dpStack[t][Len(dpStack[t])].n IN
    /\ InnermostAt(t, "store")
    /\ loopCounter' = n + 1
    /\ dpStack' = InnermostTo(t, IF n + 1 > MXUSER_MAX_LOOP
                                    THEN "setInPanic" ELSE "dump", n + 1)
    /\ UNCHANGED <<mxInPanic, legacyInPanic, dumped, aborted, NotPanicVars>>

\* ul.c:310  MXUser_SetInPanic()
DP_SetInPanic(t) ==
    /\ InnermostAt(t, "setInPanic")
    /\ SetInPanicEffect
    /\ dpStack' = InnermostTo(t, "dump", dpStack[t][Len(dpStack[t])].n)
    /\ UNCHANGED <<loopCounter, dumped, aborted, NotPanicVars>>

\* ul.c:313  (*header->dumpFunc)(header): the callback starts.  The local
\* counter value is not read again.
DP_Dump(t) ==
    /\ InnermostAt(t, "dump")
    /\ dumped' = Append(dumped, dpStack[t][Len(dpStack[t])].header)
    /\ dpStack' = InnermostTo(t, "inDump", 0)
    /\ UNCHANGED <<mxInPanic, legacyInPanic, loopCounter, aborted, NotPanicVars>>

\* ul.c:315-319  the callback has returned: Panic("%s", msg), which does not
\* return.
DP_Panic(t) ==
    /\ InnermostAt(t, "inDump")
    /\ aborted' = "Panic"
    /\ dpStack' = InnermostTo(t, "inPanic", 0)
    /\ UNCHANGED <<mxInPanic, legacyInPanic, loopCounter, dumped, NotPanicVars>>

\* Mutant: badHeader is set only once MXUserDumpAndPanic has returned.
VH_MarkBad_AfterPanic(h) == headers

\* ul.c:938, 947  header->badHeader = TRUE
VH_MarkBad(h) == [headers EXCEPT ![h].badHeader = TRUE]

\* MXUserValidateHeader(header, objectType) called by thread t, from outside
\* or from inside a dump callback or Panic, up to its return or its call of
\* MXUserDumpAndPanic.
VH_Call(t, h, objectType, clock) ==
    LET expected == MXUserGetSignature(syndromeMem, clock, objectType) IN
    /\ signedAs[h] # MXUSER_TYPE_NEVER_USE
    /\ dpStack[t] # <<>> => (InnermostAt(t, "inDump") \/ InnermostAt(t, "inPanic"))
    /\ lastCall' = [op |-> "validateHeader", header |-> h,
                    objectType |-> objectType]
    /\ UNCHANGED <<panicVars, hooks, storeVars, lockVars, outstanding,
                   singletonVars, getVars, signedAs, hashTableAllocated,
                   yPc, ySyndrome, yRet>>
    /\ IF ~expected.asserted
          THEN /\ aborted' = "SignatureAssert"
               /\ UNCHANGED <<syndromeMem, headers, dpStack>>
          ELSE /\ syndromeMem' = expected.mem
               /\ UNCHANGED aborted
               /\ IF headers[h].badHeader
                     THEN UNCHANGED <<headers, dpStack>>
                     ELSE IF \/ headers[h].signature # expected.signature
                             \/ headers[h].serialNumber = 0
                     THEN /\ Len(dpStack[t]) < MaxPanicCalls
                          /\ headers' = VH_MarkBad(h)
                          /\ dpStack' = EnterDumpAndPanic(t, h)
                     ELSE UNCHANGED <<headers, dpStack>>

\* The object types and the clock reading of the headers that are validated
\* on the panic path.
PanicPathTypes == {1, 15}

PanicPathClocks == {AllOnes32}

\* A lock that fails for another reason inside a dump callback or Panic.
OtherFailingHeaders == {"C"}

NextBadHeader ==
    \/ \E t \in PanicThreads, h \in OtherFailingHeaders : DP_Call(t, h)
    \/ \E h \in PanicHeaders, T \in PanicPathTypes, clock \in PanicPathClocks,
          serial \in SerialNumbers : ConstructHeader(h, T, clock, serial)
    \/ \E t \in PanicThreads, h \in PanicHeaders, T \in PanicPathTypes,
          clock \in PanicPathClocks : VH_Call(t, h, T, clock)
    \/ \E t \in PanicThreads : DP_Store(t)
    \/ \E t \in PanicThreads : DP_SetInPanic(t)
    \/ \E t \in PanicThreads : DP_Dump(t)
    \/ \E t \in PanicThreads : DP_Panic(t)

SpecBadHeader == Init /\ [][NextBadHeader]_vars

(***************************************************************************)
(* Tracking calls made from inside dump callbacks                          *)
(***************************************************************************)

\* Nested calls of MXUserDumpAndPanic a thread is followed through.
MaxNesting == 8

\* Thread t is running caller's code: outside this file before any abort, or
\* inside the dump callback of its innermost MXUserDumpAndPanic.
InCallerCode(t) ==
    /\ aborted = "none"
    /\ dpStack[t] # <<>> => InnermostAt(t, "inDump")

\* MXUserAcquisitionTracking(header, checkRank) called by thread t, up to
\* its return, its VERIFY or its call of MXUserDumpAndPanic.
AT_Call(t, header, checkRank, hookRank) ==
    LET g  == MXUserGetPerThread(t, TRUE)
        pt == g.pts[g.perThread]
    IN
    /\ InCallerCode(t)
    /\ hashTableMem' = g.hash
    /\ perThreadFreeList' = g.free
    /\ perThreadLockMem' = g.mem
    /\ recLocks' = g.locks
    /\ hashTableAllocated' = TRUE
    /\ UNCHANGED <<mxInPanic, legacyInPanic, loopCounter, dumped, hooks,
                   perThreadLockOwner, singletonVars, getVars, sigVars,
                   yPc, ySyndrome, yRet>>
    /\ IF ~HasRoom(pt)
          THEN /\ aborted' = "ResourceExhaustion"
               /\ perThreads' = g.pts
               /\ lastCall' = AcquireCall(t, header, checkRank, FALSE, hookRank)
               /\ UNCHANGED <<rankViolations, outstanding, dpStack>>
       ELSE IF RankCheckWanted(header, checkRank)
               /\ IsRankViolation(pt, header, hookRank)
          THEN /\ Len(dpStack[t]) < MaxNesting
               /\ rankViolations' = rankViolations + 1
               /\ dpStack' = EnterDumpAndPanic(t, header)
               /\ perThreads' = g.pts
               /\ lastCall' = AcquireCall(t, header, checkRank,
                                             hooks["CheckRank"] # NULL, hookRank)
               /\ UNCHANGED <<aborted, outstanding>>
          ELSE /\ perThreads' = [g.pts EXCEPT ![g.perThread] = AddLockInstance(pt, header)]
               /\ outstanding' = [outstanding EXCEPT ![t][header] = @ + 1]
               /\ lastCall' = AcquireCall(t, header, checkRank,
                                             RankCheckWanted(header, checkRank)
                                                /\ hooks["CheckRank"] # NULL,
                                             hookRank)
               /\ UNCHANGED <<aborted, rankViolations, dpStack>>

\* MXUserReleaseTracking(header) called by thread t, up to its return or its
\* call of MXUserDumpAndPanic.
RT_Call(t, header) ==
    LET g == MXUserGetPerThread(t, FALSE)
        i == IF g.perThread = NULL
                THEN 0
                ELSE ReleaseSearch(g.pts[g.perThread], header, 0)
    IN
    /\ InCallerCode(t)
    /\ lastCall' = ReleaseCall(t, header)
    /\ hashTableMem' = g.hash
    /\ perThreadFreeList' = g.free
    /\ hashTableAllocated' = TRUE
    /\ UNCHANGED <<panicVars, hooks, aborted, lockVars, singletonVars, getVars,
                   sigVars, yPc, ySyndrome, yRet>>
    /\ IF g.perThread = NULL \/ i >= g.pts[g.perThread].locksHeld
          THEN /\ Len(dpStack[t]) < MaxNesting
               /\ dpStack' = EnterDumpAndPanic(t, header)
               /\ perThreads' = g.pts
               /\ UNCHANGED outstanding
          ELSE /\ perThreads' = [g.pts EXCEPT ![g.perThread] =
                                    RemoveLockInstance(g.pts[g.perThread], i)]
               /\ outstanding' = [outstanding EXCEPT ![t][header] = @ - 1]
               /\ UNCHANGED dpStack

\* The caller's code, the dump callbacks included, acquires two locks (the
\* one of the lower rank is refused while the other is held), releases the
\* one of the lower rank and validates its header, whose serial number was
\* never set; the code of this file runs on.
NextReentry ==
    \/ \E t \in PanicThreads, h \in PanicHeaders :
          AT_Call(t, h, TRUE, RANK_UNRANKED)
    \/ \E t \in PanicThreads, h \in SigHeaders : RT_Call(t, h)
    \/ \E h \in SigHeaders, T \in PanicPathTypes, clock \in PanicPathClocks :
          ConstructHeader(h, T, clock, 0)
    \/ \E t \in PanicThreads, h \in SigHeaders, T \in PanicPathTypes,
          clock \in PanicPathClocks : VH_Call(t, h, T, clock)
    \/ \E t \in PanicThreads : DP_Store(t)
    \/ \E t \in PanicThreads : DP_SetInPanic(t)
    \/ \E t \in PanicThreads : DP_Dump(t)
    \/ \E t \in PanicThreads : DP_Panic(t)

\* The thread is scheduled: the code of this file takes its next step, and a
\* dump callback that is left to run returns.
FairReentry ==
    \A t \in PanicThreads :
       /\ WF_vars(DP_Store(t))
       /\ WF_vars(DP_SetInPanic(t))
       /\ WF_vars(DP_Dump(t))
       /\ WF_vars(DP_Panic(t))

SpecReentry == Init /\ [][NextReentry]_vars /\ FairReentry

\* Every way this file aborts the process: tracking calls on two locks,
\* hook installation by the legacy module and by another one, validation of
\* a header.
NextAborts ==
    \/ NextOver(AbortHeaders)
    \/ MXUserInstallMxHooks(OtherHooks)
    \/ \E h \in SigHeaders, T \in PanicPathTypes, clock \in PanicPathClocks,
          serial \in SerialNumbers : ConstructHeader(h, T, clock, serial)
    \/ \E h \in SigHeaders, T \in PanicPathTypes, clock \in PanicPathClocks :
          MXUserValidateHeader(h, T, clock)

SpecAborts == Init /\ [][NextAborts]_vars

\* MXUser_InPanic() is called: its result.
MXUser_InPanicCall ==
    /\ lastCall' = [op |-> "inPanic", result |-> MXUser_InPanic]
    /\ UNCHANGED <<panicVars, hooks, aborted, storeVars, lockVars, outstanding,
                   singletonVars, getVars, sigVars, hashTableAllocated,
                   extraVars>>

\* The hooks the legacy module may install: all of them, or all but one of
\* its two panic hooks.
PanicHookInputs ==
    {LegacyHooks, [LegacyHooks EXCEPT !["SetInPanic"] = NULL],
     [LegacyHooks EXCEPT !["InPanic"] = NULL]}

NextPanic ==
    \/ \E t \in PanicThreads, h \in PanicHeaders : DP_Call(t, h)
    \/ \E t \in PanicThreads : DP_Store(t)
    \/ \E t \in PanicThreads : DP_SetInPanic(t)
    \/ \E t \in PanicThreads : DP_Dump(t)
    \/ \E t \in PanicThreads : DP_Panic(t)
    \/ MXUser_SetInPanic

SpecPanic == Init /\ [][NextPanic]_vars

NextInPanic ==
    \/ NextPanic
    \/ MX_LegacyPanic
    \/ \E the \in PanicHookInputs : MXUserInstallMxHooks(the)
    \/ MXUser_InPanicCall

SpecInPanic == Init /\ [][NextInPanic]_vars

(***************************************************************************)
(* Properties of the tracking operations                                   *)
(***************************************************************************)

CountIn(seq, h) == Cardinality({i \in DOMAIN seq : seq[i] = h})

InSeq(seq, h) == \E i \in DOMAIN seq : seq[i] = h

RemoveAt(seq, i) ==
    [k \in 1..(Len(seq) - 1) |-> IF k < i THEN seq[k] ELSE seq[k + 1]]

\* The step is a call of `op` by thread t (returned or aborted).
Called(op, t) == lastCall'.op = op /\ lastCall'.tid = t

\* The step is a call of `op` by thread t that returned.
Returned(op, t) == Called(op, t) /\ aborted' = "none"

\* The record of thread t is at capacity before the step.
AtCapacity(t) == Len(HeldOf(t)) = MXUSER_MAX_LOCKS_PER_THREAD

\* The step is a rank-checked acquire by t, out of panic, of a ranked header
\* that t does not hold and whose rank is at most that of a header t holds.
LowRankAcquire(t) ==
    /\ Called("acquire", t)
    /\ lastCall'.checkRank
    /\ HeaderRank(lastCall'.header) # RANK_UNRANKED
    /\ ~MXUser_InPanic
    /\ ~InSeq(HeldOf(t), lastCall'.header)
    /\ \E i \in DOMAIN HeldOf(t) :
          HeaderRank(lastCall'.header) <= HeaderRank(HeldOf(t)[i])

\* The step reports one rank violation and aborts, appending nothing.
ViolationReported(t) ==
    /\ rankViolations' = rankViolations + 1
    /\ aborted' = "RankViolation"
    /\ HeldOf(t)' = HeldOf(t)

\* The step is an acquire by t of a header t already holds.
RecursiveAcquire(t) ==
    /\ Called("acquire", t)
    /\ InSeq(HeldOf(t), lastCall'.header)

\* C1: after every prefix of returned acquire/release calls of a thread, its
\* record holds exactly the multiset of headers acquired and not yet
\* released (outstanding), and in acquisition order: a returned acquire
\* appends its header, a returned release removes one occurrence of its
\* header and keeps the order of the rest, nothing else changes the record.
C1_HeldIsOutstandingInOrder ==
    /\ [](\A t \in Tids, h \in Headers :
             CountIn(HeldOf(t), h) = outstanding[t][h])
    /\ [][\A t \in Tids :
             IF Returned("acquire", t)
                THEN HeldOf(t)' = Append(HeldOf(t), lastCall'.header)
             ELSE IF Returned("release", t)
                THEN \E i \in DOMAIN HeldOf(t) :
                        /\ HeldOf(t)[i] = lastCall'.header
                        /\ HeldOf(t)' = RemoveAt(HeldOf(t), i)
             ELSE HeldOf(t)' = HeldOf(t)]_vars

\* A release that returned and left at least two entries, one of them the
\* released header itself.
C1_Witness ==
    /\ lastCall.op = "release"
    /\ aborted = "none"
    /\ Len(HeldOf(lastCall.tid)) >= 2
    /\ InSeq(HeldOf(lastCall.tid), lastCall.header)
    /\ HeldOf(lastCall.tid)[1] # lastCall.header

\* C2 as stated: out of panic, a rank-checked acquire of a ranked header the
\* thread does not hold, of rank at most the maximum rank it holds, reports
\* exactly one rank violation, aborts, and appends nothing.
C2_Original ==
    [][\A t \in Tids : LowRankAcquire(t) => ViolationReported(t)]_vars

\* C2 amended: the same, for a thread whose record is below capacity (at
\* capacity the acquire aborts with resource exhaustion before any rank check).
C2_RankViolationBelowCapacity ==
    [][\A t \in Tids :
          LowRankAcquire(t) /\ ~AtCapacity(t) => ViolationReported(t)]_vars

\* A violation on a header of the same rank as a held one; it is the only
\* violation of the run.
C2_Witness ==
    /\ aborted = "RankViolation"
    /\ rankViolations = 1
    /\ lastCall.op = "acquire"
    /\ ~InSeq(HeldOf(lastCall.tid), lastCall.header)
    /\ \A i \in DOMAIN HeldOf(lastCall.tid) :
          HeaderRank(HeldOf(lastCall.tid)[i]) <= HeaderRank(lastCall.header)
    /\ \E i \in DOMAIN HeldOf(lastCall.tid) :
          HeaderRank(HeldOf(lastCall.tid)[i]) = HeaderRank(lastCall.header)

\* C3 as stated: an acquire of a header the thread already holds is no first
\* instance, reports no rank violation whatever the thread holds and the
\* legacy hook reports, and appends the header once more.
C3_Original ==
    [][\A t \in Tids :
          RecursiveAcquire(t) =>
             /\ ~MXUserThreadRank(perThreads[hashTableMem[t]],
                                  lastCall'.header).firstUse
             /\ rankViolations' = rankViolations
             /\ aborted' # "RankViolation"
             /\ HeldOf(t)' = Append(HeldOf(t), lastCall'.header)]_vars

\* C3 amended: the same; the header is appended once more when the record is
\* below capacity (at capacity the acquire aborts with resource exhaustion).
C3_RecursiveAcquireBelowCapacity ==
    [][\A t \in Tids :
          RecursiveAcquire(t) =>
             /\ ~MXUserThreadRank(perThreads[hashTableMem[t]],
                                  lastCall'.header).firstUse
             /\ rankViolations' = rankViolations
             /\ aborted' # "RankViolation"
             /\ ~AtCapacity(t) =>
                   /\ aborted' = "none"
                   /\ HeldOf(t)' = Append(HeldOf(t), lastCall'.header)]_vars

\* A rank-checked recursive acquire, out of panic, of a header below a rank
\* the thread holds and below what the legacy hook reported.
C3_Witness ==
    /\ lastCall.op = "acquire"
    /\ aborted = "none"
    /\ lastCall.checkRank
    /\ lastCall.hookAsked
    /\ HeaderRank(lastCall.header) < lastCall.hookRank
    /\ CountIn(HeldOf(lastCall.tid), lastCall.header) = 2
    /\ \E i \in DOMAIN HeldOf(lastCall.tid) :
          HeaderRank(HeldOf(lastCall.tid)[i]) > HeaderRank(lastCall.header)

\* The greatest rank among the headers of seq, RANK_UNRANKED for none.
GreatestRank(seq) ==
    CHOOSE m \in Ranks :
       /\ \A i \in DOMAIN seq : HeaderRank(seq[i]) <= m
       /\ m = RANK_UNRANKED \/ \E i \in DOMAIN seq : HeaderRank(seq[i]) = m

\* C4: an acquire of a header whose rank is greater than every rank the
\* thread holds, the legacy rank hook (if asked) reporting no rank higher
\* than the thread holds, reports no rank violation and appends the header,
\* for every number of held headers below capacity.
C4_IncreasingRanksNeverViolate ==
    [][\A t \in Tids :
          /\ Called("acquire", t)
          /\ \A i \in DOMAIN HeldOf(t) :
                HeaderRank(HeldOf(t)[i]) < HeaderRank(lastCall'.header)
          /\ lastCall'.hookAsked => lastCall'.hookRank <= GreatestRank(HeldOf(t))
          /\ ~AtCapacity(t)
          => /\ rankViolations' = rankViolations
             /\ aborted' = "none"
             /\ HeldOf(t)' = Append(HeldOf(t), lastCall'.header)]_vars

\* A record filled to capacity in strictly increasing rank order, the last
\* acquire rank-checked with the legacy hook asked.
C4_Witness ==
    /\ aborted = "none"
    /\ lastCall.op = "acquire"
    /\ lastCall.checkRank
    /\ lastCall.hookAsked
    /\ Len(HeldOf(lastCall.tid)) = MXUSER_MAX_LOCKS_PER_THREAD
    /\ \A i, j \in DOMAIN HeldOf(lastCall.tid) :
          i < j => HeaderRank(HeldOf(lastCall.tid)[i])
                      < HeaderRank(HeldOf(lastCall.tid)[j])

\* C5: no record ever holds more than MXUSER_MAX_LOCKS_PER_THREAD entries; an
\* acquire on a record below capacity never ends in resource exhaustion (it
\* appends unless it is a rank violation); an acquire on a record at capacity
\* always does, before any rank check (no violation, no dump) and without
\* writing the record.
C5_ExhaustionExactlyAtCapacity ==
    /\ [](\A p \in DOMAIN perThreads :
             perThreads[p].locksHeld <= MXUSER_MAX_LOCKS_PER_THREAD)
    /\ [][\A t \in Tids :
             Called("acquire", t) =>
                IF AtCapacity(t)
                   THEN /\ aborted' = "ResourceExhaustion"
                        /\ rankViolations' = rankViolations
                        /\ dumped' = dumped
                        /\ perThreads' = perThreads
                   ELSE /\ aborted' \in {"none", "RankViolation"}
                        /\ aborted' = "none" =>
                              Len(HeldOf(t)') = Len(HeldOf(t)) + 1]_vars

\* The acquire after the last one that fits.
C5_Witness ==
    /\ aborted = "ResourceExhaustion"
    /\ lastCall.op = "acquire"
    /\ Len(HeldOf(lastCall.tid)) = MXUSER_MAX_LOCKS_PER_THREAD
    /\ outstanding[lastCall.tid][lastCall.header] = 0

\* C10: a release of a header the thread does not hold, or by a thread with
\* no record, dumps the header and aborts; it leaves the store, every record
\* (count and entries) and the free list as they were (nothing allocated).
C10_UntrackedReleaseAborts ==
    [][\A t \in Tids :
          /\ Called("release", t)
          /\ ~InSeq(HeldOf(t), lastCall'.header)
          => /\ aborted' = IF hashTableMem[t] = NULL
                              THEN "ReleaseNoPerThread" ELSE "ReleaseNotFound"
             /\ dumped' = Append(dumped, lastCall'.header)
             /\ hashTableMem' = hashTableMem
             /\ perThreads' = perThreads
             /\ perThreadFreeList' = perThreadFreeList]_vars

\* A release of a header missing from a record that holds others.
C10_Witness ==
    /\ aborted = "ReleaseNotFound"
    /\ lastCall.op = "release"
    /\ dumped = <<lastCall.header>>
    /\ Len(HeldOf(lastCall.tid)) > 0


(***************************************************************************)
(* Properties of the concurrent operations                                 *)
(***************************************************************************)

\* Every caller is a thread of its own.
OwnIdentities == \A c1, c2 \in Callers : c1 # c2 => tidOf[c1] # tidOf[c2]

\* Every caller has requested its record and no request is in progress.
AllRecordsRequested ==
    \A c \in Callers : gPc[c] = "idle" /\ Len(gResult[c]) >= 1

StoredRecords == {hashTableMem[t] : t \in Tids} \ {NULL}

\* C6: when N threads, each a thread identity of its own, concurrently
\* request their tracker record with MXUserGetPerThread(TRUE), then under
\* every interleaving each request returns the record stored under the
\* requester's identity, no record is returned to two threads, and once all
\* have requested, the store holds exactly N records, one per identity, and
\* no allocated record is outside the store (none lost, none left on the
\* free list).
C6_ConcurrentCreationOneRecordEach ==
    OwnIdentities =>
       /\ \A c \in Callers : \A i \in DOMAIN gResult[c] :
             /\ gResult[c][i] # NULL
             /\ gResult[c][i] = hashTableMem[tidOf[c]]
       /\ \A c1, c2 \in Callers : c1 # c2 =>
             \A i \in DOMAIN gResult[c1] : \A j \in DOMAIN gResult[c2] :
                gResult[c1][i] # gResult[c2][j]
       /\ AllRecordsRequested =>
             /\ \A c \in Callers : hashTableMem[tidOf[c]] # NULL
             /\ Cardinality(StoredRecords) = Cardinality(Callers)
             /\ DOMAIN perThreads = StoredRecords
             /\ perThreadFreeList = NULL

\* Three threads of their own identity have all requested their record, each
\* more than once, and three records exist.
C6_Witness ==
    /\ OwnIdentities
    /\ \A c \in Callers : gPc[c] = "idle" /\ Len(gResult[c]) = MaxGetCalls
    /\ Cardinality(DOMAIN perThreads) = Cardinality(Callers)
    /\ perThreadLockMem # NULL

\* The cell, once published, keeps its value.
PublishedAtMostOnce ==
    [][perThreadLockMem # NULL => perThreadLockMem' = perThreadLockMem]_vars

\* The published lock is initialized and was never destroyed or freed.
PublishedIsIntact ==
    perThreadLockMem # NULL =>
       /\ recLocks[perThreadLockMem].inited
       /\ recLocks[perThreadLockMem].destroyed = 0
       /\ recLocks[perThreadLockMem].freed = 0

\* The candidate a is still in the hands of the call that allocated it.
CandidateInHand(a) ==
    \E c \in Callers :
       sNewLock[c] = a /\ sPc[c] \in {"cas", "destroy", "initFailed", "reread"}

\* No candidate is freed twice, and a candidate that is not the published
\* one is freed once its call is through with it.
LosersFreedOnce ==
    \A a \in DOMAIN recLocks :
       /\ recLocks[a].freed <= 1
       /\ recLocks[a].destroyed <= 1
       /\ (a # perThreadLockMem /\ ~CandidateInHand(a)) => recLocks[a].freed = 1
       /\ CandidateInHand(a) => recLocks[a].freed = 0

\* The value a call is about to return, and every value returned so far.
ReturnValues(c) ==
    {sRet[c][i] : i \in DOMAIN sRet[c]}
       \cup (IF sPc[c] = "ret" THEN {sLock[c]} ELSE {})

\* C7 as stated: the cell is published at most once, every call returns
\* that one fully initialized lock, every candidate that lost or failed
\* initialization is freed exactly once, and the published candidate is
\* never destroyed or freed.
C7_Original ==
    /\ PublishedAtMostOnce
    /\ [](/\ PublishedIsIntact
          /\ LosersFreedOnce
          /\ \A c \in Callers : \A l \in ReturnValues(c) :
                l # NULL /\ l = perThreadLockMem)

\* C7, amended: the cell is published at most once; every call returns
\* either that one fully initialized lock or, when its own candidate failed
\* initialization while the cell was still empty, NULL; every candidate
\* that lost or failed initialization is freed exactly once; the published
\* candidate is never destroyed or freed.
C7_SingletonPublishedOnce ==
    /\ PublishedAtMostOnce
    /\ [](/\ PublishedIsIntact
          /\ LosersFreedOnce
          /\ \A c \in Callers :
                /\ \A l \in ReturnValues(c) : l = NULL \/ l = perThreadLockMem
                /\ (sPc[c] = "ret" /\ sLock[c] = NULL) =>
                      /\ sNewLock[c] # NULL
                      /\ ~recLocks[sNewLock[c]].inited)

\* Calls raced: one candidate is published, another lost the
\* compare-and-publish and was destroyed and freed, a third failed
\* initialization and was freed, and every caller has been returned the
\* published lock.
C7_Witness ==
    /\ perThreadLockMem # NULL
    /\ \E a \in DOMAIN recLocks : recLocks[a].destroyed = 1 /\ recLocks[a].freed = 1
    /\ \E b \in DOMAIN recLocks : ~recLocks[b].inited /\ recLocks[b].freed = 1
    /\ \A c \in Callers :
          /\ sPc[c] = "idle"
          /\ Len(sRet[c]) >= 1
          /\ sRet[c][Len(sRet[c])] = perThreadLockMem

(***************************************************************************)
(* Properties of signatures and of hook installation                       *)
(***************************************************************************)

\* The step is MXUserValidateHeader(h, T) with T a valid object type, on a
\* header with badHeader clear and a non-zero serial number.
ValidatesSoundHeader(h, T) ==
    /\ lastCall' = [op |-> "validateHeader", header |-> h, objectType |-> T]
    /\ T \in ValidTypes
    /\ ~headers[h].badHeader
    /\ headers[h].serialNumber # 0

\* C8: for every valid object type T, validating a header (badHeader clear,
\* serial number non-zero) that was given the signature MXUserGetSignature(T)
\* against T returns normally, changing nothing, and validating it against
\* any other valid type fails fatally with a signature failure, the header
\* marked bad and dumped.
C8_SignatureRoundTrip ==
    [][\A h \in SigHeaders : \A T \in ValidTypes :
          ValidatesSoundHeader(h, T) =>
             IF T = signedAs[h]
                THEN /\ aborted' = aborted
                     /\ headers' = headers
                     /\ dumped' = dumped
                ELSE /\ aborted' = "SignatureFailure"
                     /\ headers'[h].badHeader
                     /\ dumped' = Append(dumped, h)]_vars

\* A header of type 15, signed while the clock read all ones, was validated
\* as type 7 (one bit of difference in the signature) and the validation
\* failed fatally.
C8_Witness ==
    /\ lastCall = [op |-> "validateHeader", header |-> "A", objectType |-> 7]
    /\ signedAs["A"] = 15
    /\ syndromeMem = AllOnes32
    /\ headers["A"].serialNumber # 0
    /\ headers["A"].badHeader
    /\ aborted = "SignatureFailure"
    /\ dumped = <<"A">>

\* C9: once a call of MXUserInstallMxHooks has populated the hook table,
\* every later call either supplies the same nine values, returns and
\* leaves the table unchanged, or supplies at least one differing value (a
\* differing ninth value included) and fails fatally; no step changes a
\* populated table.
C9_HooksSetOnce ==
    /\ [][(~NoHookInstalled /\ lastCall'.op = "installMxHooks") =>
             /\ hooks' = hooks
             /\ IF \A s \in HookSlots : lastCall'.the[s] = hooks[s]
                   THEN aborted' = "none"
                   ELSE aborted' = "HookAssert"]_vars
    /\ [][~NoHookInstalled => hooks' = hooks]_vars

\* The legacy hooks are installed, and a call offering the same hooks but
\* for a different ninth one (the InPanic hook) failed fatally.
C9_Witness ==
    /\ hooks = LegacyHooks
    /\ lastCall = [op |-> "installMxHooks",
                   the |-> [LegacyHooks EXCEPT !["InPanic"] = "other"]]
    /\ aborted = "HookAssert"

(***************************************************************************)
(* Properties of the panic state                                           *)
(***************************************************************************)

\* The calls of MXUserDumpAndPanic that have incremented the counter.
CallsCounted(t) ==
    IF InnermostAt(t, "store") THEN Len(dpStack[t]) - 1 ELSE Len(dpStack[t])

\* C11: MXUserDumpAndPanic increments the loop counter on every call, calls
\* made from inside a dump callback (or from Panic) included: the k-th call
\* leaves it at k.  On every call where the incremented counter exceeds
\* MXUSER_MAX_LOOP (the sixth call onward) the panic state is entered before
\* the header's dump capability is invoked, and on calls one to five
\* MXUserDumpAndPanic does not set the panic flag.
C11_PanicForcedFromSixthCall ==
    /\ [](\A t \in PanicThreads :
             /\ loopCounter = CallsCounted(t)
             /\ \A k \in DOMAIN dpStack[t] :
                   /\ dpStack[t][k].pc \in {"setInPanic", "dump"} =>
                         dpStack[t][k].n = k
                   /\ (dpStack[t][k].pc = "dump" /\ k > MXUSER_MAX_LOOP) =>
                         mxInPanic)
    /\ [][\A t \in PanicThreads :
             /\ (InnermostAt(t, "store") /\ dpStack' # dpStack) =>
                   loopCounter' = loopCounter + 1
             /\ dumped' # dumped =>
                   /\ InnermostAt(t, "dump")
                   /\ dumped' = Append(dumped, dpStack[t][Len(dpStack[t])].header)
                   /\ Len(dpStack[t]) > MXUSER_MAX_LOOP => mxInPanic
             /\ (mxInPanic' # mxInPanic /\ dpStack' # dpStack) =>
                   Len(dpStack[t]) > MXUSER_MAX_LOOP]_vars

\* The sixth call, made from inside the dump callback of the fifth, has
\* forced the panic state (nothing else asked for it) and is inside its own
\* dump callback.
C11_Witness ==
    /\ Len(dpStack["t1"]) = MXUSER_MAX_LOOP + 1
    /\ InnermostAt("t1", "inDump")
    /\ loopCounter = MXUSER_MAX_LOOP + 1
    /\ Len(dumped) = MXUSER_MAX_LOOP + 1
    /\ mxInPanic
    /\ lastCall = [op |-> "none"]
    /\ aborted = "none"

\* C12: MXUser_SetInPanic, called directly or by MXUserDumpAndPanic, sets
\* the panic flag and invokes the legacy set-panic hook when one is
\* registered; no step clears the flag, so MXUser_InPanic, once true because
\* of the flag, is true in every later state; a call of MXUser_InPanic
\* returns true exactly when the flag is set or a registered legacy
\* query-panic hook reports true.
C12_PanicFlagSticky ==
    /\ [][mxInPanic => mxInPanic']_vars
    /\ [][((lastCall'.op = "setInPanic" /\ lastCall' # lastCall)
              \/ mxInPanic' # mxInPanic) =>
             /\ mxInPanic'
             /\ hooks["SetInPanic"] # NULL => legacyInPanic']_vars
    /\ [][(lastCall'.op = "inPanic" /\ lastCall' # lastCall) =>
             lastCall'.result =
                (mxInPanic \/ (hooks["InPanic"] # NULL /\ legacyInPanic))]_vars
    /\ [](mxInPanic => MXUser_InPanic)

\* The legacy module has panicked, the local flag is clear, and
\* MXUser_InPanic has returned true on the word of the query-panic hook.
C12_Witness ==
    /\ ~mxInPanic
    /\ legacyInPanic
    /\ hooks["InPanic"] # NULL
    /\ lastCall = [op |-> "inPanic", result |-> TRUE]

\* The step pushes a call of MXUserDumpAndPanic(h, ...) on thread t's stack.
StartsDumpAndPanic(t, h) ==
    /\ Len(dpStack'[t]) = Len(dpStack[t]) + 1
    /\ dpStack'[t][Len(dpStack'[t])].header = h

\* The step is a call MXUserValidateHeader(h, ...).  (A repeated call on a
\* bad header with the arguments of the last call changes no variable.)
ValidateCalled(h) ==
    /\ lastCall'.op = "validateHeader"
    /\ lastCall'.header = h
    /\ lastCall' # lastCall \/ headers' # headers

\* Header h, constructed with the signature of type signedAs[h], does not
\* pass as an object of type objectType.
Corrupted(h, objectType) ==
    signedAs[h] # objectType \/ headers[h].serialNumber = 0

\* C13: badHeader, once set, is never cleared.  A validation of a header
\* whose flag is clear and whose signature mismatches or whose serial number
\* is zero sets the flag and enters MXUserDumpAndPanic, so the flag is set
\* when the header is dumped and when the process aborts; a validation of a
\* header whose flag is set changes nothing: no dump, no abort.  Hence the
\* validation of a header starts a dump and abort at most once.
C13_BadHeaderSticky ==
    /\ [][\A h \in PanicHeaders :
             headers[h].badHeader => headers'[h].badHeader]_vars
    /\ [][\A t \in PanicThreads, h \in PanicHeaders :
             /\ (ValidateCalled(h) /\ ~headers[h].badHeader
                   /\ Corrupted(h, lastCall'.objectType)) =>
                   /\ headers'[h].badHeader
                   /\ StartsDumpAndPanic(t, h)
             /\ StartsDumpAndPanic(t, h) =>
                   /\ ValidateCalled(h)
                   /\ ~headers[h].badHeader
                   /\ headers'[h].badHeader
                   /\ Corrupted(h, lastCall'.objectType)
             /\ (ValidateCalled(h) /\ headers[h].badHeader) =>
                   UNCHANGED <<panicVars, aborted, headers, dpStack>>
             /\ (dumped' # dumped /\ dumped'[Len(dumped')] = h) =>
                   headers[h].badHeader
             /\ (aborted' = "Panic" /\ InnermostAt(t, "inDump")
                   /\ dpStack[t][Len(dpStack[t])].header = h) =>
                   headers[h].badHeader]_vars
    /\ [](\A t \in PanicThreads, h \in PanicHeaders :
             /\ CountIn(dumped, h) <= 1
             /\ Cardinality({k \in DOMAIN dpStack[t] :
                               dpStack[t][k].header = h}) <= 1)

\* Header A, sound as an object of type 1, was validated as an object of
\* type 15, dumped, and the process aborted; it has since been validated as
\* an object of type 1, which returned without a second dump.
C13_Witness ==
    /\ signedAs["A"] = 1
    /\ headers["A"].serialNumber = 1
    /\ headers["A"].badHeader
    /\ CountIn(dumped, "A") = 1
    /\ aborted = "Panic"
    /\ lastCall = [op |-> "validateHeader", header |-> "A", objectType |-> 1]

\* C14 as claimed: every step that aborts the process appends one header to
\* the dump log.
C14_Original ==
    [][aborted' # aborted => Len(dumped') = Len(dumped) + 1]_vars

\* C14: an abort for a rank violation, for the release of an untracked header
\* or for a corrupted header comes with the dump of the header the call was
\* given; an abort for resource exhaustion (an acquire at capacity) and one
\* for a hook contract violation come with no dump.
C14_DumpBeforeAbortUnlessAsserted ==
    [][aborted' # aborted =>
          IF \/ lastCall'.op \in {"release", "validateHeader"}
             \/ lastCall'.op = "acquire" /\ ~AtCapacity(lastCall'.tid)
             THEN dumped' = Append(dumped, lastCall'.header)
             ELSE /\ \/ lastCall'.op = "installMxHooks"
                     \/ lastCall'.op = "acquire" /\ AtCapacity(lastCall'.tid)
                  /\ dumped' = dumped]_vars

\* A rank violation has aborted the process, and the header of the refused
\* acquire is the one dumped.
C14_Witness ==
    /\ aborted = "RankViolation"
    /\ lastCall.op = "acquire"
    /\ dumped = <<lastCall.header>>

(***************************************************************************)
(* Properties of the syndrome                                              *)
(***************************************************************************)

\* C15: whatever the interleaving, syndromeMem is written only while it is
\* zero and only with a non-zero value, so it changes at most once; no call
\* fails its assertion, and every value a call has returned is the value
\* syndromeMem holds, whatever candidates the callers computed.
C15_SyndromePublishedOnce ==
    /\ [][syndromeMem' # syndromeMem =>
             syndromeMem = Zero32 /\ syndromeMem' # Zero32]_vars
    /\ [](/\ aborted = "none"
          /\ \A c \in Callers :
                \A k \in DOMAIN yRet[c] :
                   yRet[c][k] # Zero32 /\ yRet[c][k] = syndromeMem)

\* Three callers raced with three different candidates (c3's from a clock
\* reading of zero): c1 published its own and returned it; c2 and c3 have
\* attempted to publish theirs and are about to read syndromeMem again.
C15_Witness ==
    /\ syndromeMem = AllOnes32
    /\ yRet["c1"] = <<AllOnes32>>
    /\ yPc["c2"] = "reread" /\ ySyndrome["c2"] = UInt32(2)
    /\ yPc["c3"] = "reread" /\ ySyndrome["c3"] = UInt32(1)

(***************************************************************************)
(* Properties of the rank check                                            *)
(***************************************************************************)

\* The step is an acquire by t that asks for no rank check, or of an unranked
\* header, or made while the process is in panic.
UncheckedAcquire(t) ==
    /\ Called("acquire", t)
    /\ \/ MXUser_InPanic
       \/ ~lastCall'.checkRank
       \/ HeaderRank(lastCall'.header) = RANK_UNRANKED

\* The step reports no rank violation.
NoViolationReported ==
    rankViolations' = rankViolations /\ aborted' # "RankViolation"

\* C16 as claimed: in panic, or with checkRank false, or for an unranked
\* header, an acquire reports no rank violation whatever the thread holds,
\* and appends the header to the thread's record.
C16_Original ==
    [][\A t \in Tids :
          UncheckedAcquire(t) =>
             /\ NoViolationReported
             /\ HeldOf(t)' = Append(HeldOf(t), lastCall'.header)]_vars

\* C16 amended: such an acquire reports no rank violation whatever the
\* thread holds, and, when the thread's record is below capacity, returns
\* with the header appended to the record.
C16_UncheckedAcquireAppends ==
    [][\A t \in Tids :
          UncheckedAcquire(t) =>
             /\ NoViolationReported
             /\ ~AtCapacity(t) =>
                   /\ aborted' = "none"
                   /\ HeldOf(t)' = Append(HeldOf(t), lastCall'.header)]_vars

\* In panic, a rank-checked first acquire of a ranked header has returned
\* with the header appended after a header of a higher rank.
C16_Witness ==
    /\ mxInPanic
    /\ aborted = "none"
    /\ lastCall.op = "acquire"
    /\ lastCall.checkRank
    /\ LET held == HeldOf(lastCall.tid) IN
          /\ Len(held) >= 2
          /\ held[Len(held)] = lastCall.header
          /\ CountIn(held, lastCall.header) = 1
          /\ HeaderRank(lastCall.header) # RANK_UNRANKED
          /\ HeaderRank(lastCall.header) < HeaderRank(held[Len(held) - 1])

(***************************************************************************)
(* Properties of the queries                                               *)
(***************************************************************************)

\* The step is a query by thread t.
Queried(t) ==
    /\ lastCall'.op \in {"listLocks", "isHolding", "currentRank"}
    /\ lastCall'.tid = t
    /\ vars' # vars

RECURSIVE FreeListFrom(_, _, _)
FreeListFrom(pts, a, n) ==
    IF a = NULL \/ n = 0
       THEN {}
       ELSE {a} \cup FreeListFrom(pts, pts[a].next, n - 1)

\* The records on the free list.
OnFreeList ==
    FreeListFrom(perThreads, perThreadFreeList, Cardinality(DOMAIN perThreads))

\* C18: a record attached to a thread identity stays attached to that
\* identity; the record of a call that lost the insertion race is attached
\* to no identity and is not the record the call uses, and the call puts it
\* on the free list; no record on the free list is attached, is in use by a
\* call, or was returned by one.
C18_AttachedStaysLoserFreed ==
    /\ [][\A t \in Tids :
             hashTableMem[t] # NULL => hashTableMem'[t] = hashTableMem[t]]_vars
    /\ [][\A c \in Callers :
             (gPc[c] = "freePush" /\ gPc'[c] = "ret") =>
                /\ gNewEntry[c] \in OnFreeList'
                /\ OnFreeList' = OnFreeList \cup {gNewEntry[c]}]_vars
    /\ [](/\ StoredRecords \cap OnFreeList = {}
          /\ \A c \in Callers :
                /\ gPc[c] \in {"freeLock", "freePush"} =>
                      /\ gNewEntry[c] \notin StoredRecords \cup OnFreeList
                      /\ gPerThread[c] # gNewEntry[c]
                      /\ gPerThread[c] = hashTableMem[tidOf[c]]
                /\ gPc[c] = "ret" => gPerThread[c] \notin OnFreeList
                /\ \A i \in DOMAIN gResult[c] : gResult[c][i] \notin OnFreeList)

\* Two callers of one thread identity raced: both returned the record that
\* is attached to the identity, and the loser's record is on the free list.
C18_Witness ==
    /\ tidOf["c1"] = tidOf["c3"]
    /\ gResult["c1"] # <<>> /\ gResult["c1"][1] = hashTableMem[tidOf["c1"]]
    /\ gResult["c3"] # <<>> /\ gResult["c3"][1] = hashTableMem[tidOf["c1"]]
    /\ OnFreeList # {}
    /\ OnFreeList \cap StoredRecords = {}

(***************************************************************************)
(* Properties of the signature as a number                                 *)
(***************************************************************************)

\* The number written in bits lo..hi of a uint32, bit lo the least
\* significant.
RECURSIVE BitsValue(_, _, _)
BitsValue(bits, lo, hi) ==
    IF lo > hi
       THEN 0
       ELSE (IF bits[lo] THEN 1 ELSE 0) + 2 * BitsValue(bits, lo + 1, hi)

\* C19: for every object type T of 1..15 and every syndrome (non-zero), the
\* signature MXUserGetSignature(T) gives a header is the number
\* (syndrome mod 2^28) + T * 2^28, which is below 2^32: its low 28 bits are
\* the number syndrome mod 2^28 and its high four bits the number T; it is
\* not zero.
C19_SignatureValue ==
    [][\A h \in SigHeaders :
          (lastCall'.op = "constructHeader" /\ signedAs[h] # signedAs'[h]) =>
             /\ lastCall'.objectType \in 1..15
             /\ syndromeMem' # Zero32
             /\ BitsValue(headers'[h].signature, 1, 28) =
                   BitsValue(syndromeMem', 1, 28)
             /\ BitsValue(headers'[h].signature, 29, 32) = lastCall'.objectType
             /\ headers'[h].signature # Zero32]_vars

\* A header of type 1 was signed with the syndrome 0xFFFFFFFF: the signature
\* is 0x1FFFFFFF.
C19_Witness ==
    /\ lastCall = [op |-> "constructHeader", header |-> "A", objectType |-> 1]
    /\ syndromeMem = AllOnes32
    /\ BitsValue(headers["A"].signature, 1, 28) = 268435455
    /\ BitsValue(headers["A"].signature, 29, 32) = 1

(***************************************************************************)
(* Properties of the rank merged from the legacy module                    *)
(***************************************************************************)

\* The step is a rank-checked acquire by t, out of panic and below capacity,
\* of a ranked header that t does not hold.
CheckedFirstAcquire(t) ==
    /\ Called("acquire", t)
    /\ lastCall'.checkRank
    /\ HeaderRank(lastCall'.header) # RANK_UNRANKED
    /\ ~MXUser_InPanic
    /\ ~InSeq(HeldOf(t), lastCall'.header)
    /\ ~AtCapacity(t)

\* C20: on a rank-checked first acquire, the legacy rank hook is asked
\* exactly when it is registered; the acquire is a rank violation exactly
\* when the header's rank is at most the greater of the greatest rank the
\* thread holds and, when the hook is registered, the rank the hook reports
\* (so also when the thread holds nothing), and otherwise it returns with
\* the header appended.
C20_HookRankMerged ==
    [][\A t \in Tids :
          CheckedFirstAcquire(t) =>
             LET own      == GreatestRank(HeldOf(t))
                 asked    == hooks["CheckRank"] # NULL
                 compared == IF asked /\ lastCall'.hookRank > own
                                THEN lastCall'.hookRank
                                ELSE own
             IN  /\ lastCall'.hookAsked = asked
                 /\ IF HeaderRank(lastCall'.header) <= compared
                       THEN ViolationReported(t)
                       ELSE /\ aborted' = "none"
                            /\ rankViolations' = rankViolations
                            /\ HeldOf(t)' = Append(HeldOf(t), lastCall'.header)]_vars

\* A thread holding no lock was refused a header whose rank equals the rank
\* the legacy rank hook reported.
C20_Witness ==
    /\ aborted = "RankViolation"
    /\ lastCall.op = "acquire"
    /\ lastCall.hookAsked
    /\ lastCall.hookRank = HeaderRank(lastCall.header)
    /\ HeldOf(lastCall.tid) = <<>>
    /\ dumped = <<lastCall.header>>

(***************************************************************************)
(* Properties of re-entry from dump callbacks                              *)
(***************************************************************************)

\* The nesting that the panic flag and the badHeader flags allow: the calls
\* up to the one that forces the panic state, and one more for each header
\* that is validated.
NestingBound == MXUSER_MAX_LOOP + 1 + Cardinality(SigHeaders)

\* C21 as claimed: when dump callbacks re-enter through rank-violating
\* acquires, releases of an untracked header and header validations, the
\* calls of MXUserDumpAndPanic never nest deeper than NestingBound, and a
\* thread that has entered MXUserDumpAndPanic eventually reaches the abort.
C21_Original ==
    /\ [](\A t \in PanicThreads : Len(dpStack[t]) <= NestingBound)
    /\ \A t \in PanicThreads : (dpStack[t] # <<>>) ~> (aborted # "none")

(***************************************************************************)
(* Properties of the release of a header held more than once               *)
(***************************************************************************)

\* The record of thread t (t has one).
RecordOf(t) == perThreads[hashTableMem[t]]

\* C22: a release of a header that occurs more than once in the thread's
\* record returns; it removes the occurrence at the lowest index and no
\* other, every later entry moves down by one slot in the same order, the
\* slot that was the last one in use is NULL afterwards, the slots beyond it
\* are untouched, and locksHeld is one less.
C22_ReleaseRemovesEarliest ==
    [][\A t \in Tids :
          (Called("release", t) /\ CountIn(HeldOf(t), lastCall'.header) >= 2) =>
             LET h    == lastCall'.header
                 held == HeldOf(t)
                 n    == Len(held)
                 i    == CHOOSE k \in 1..n :
                            held[k] = h /\ \A m \in 1..(k - 1) : held[m] # h
             IN  /\ aborted' = "none"
                 /\ hashTableMem'[t] = hashTableMem[t]
                 /\ RecordOf(t)'.locksHeld = n - 1
                 /\ \A k \in 1..(i - 1) : RecordOf(t)'.lockArray[k] = held[k]
                 /\ \A k \in i..(n - 1) : RecordOf(t)'.lockArray[k] = held[k + 1]
                 /\ RecordOf(t)'.lockArray[n] = NULL
                 /\ \A k \in (n + 1)..MXUSER_MAX_LOCKS_PER_THREAD :
                       RecordOf(t)'.lockArray[k] = RecordOf(t).lockArray[k]
                 /\ CountIn(HeldOf(t)', h) = CountIn(held, h) - 1]_vars

\* Thread t1 held A, B, A, B and released A: the first A is the one removed,
\* and the record holds B, A, B.
C22_Witness ==
    /\ lastCall = [op |-> "release", tid |-> "t1", header |-> "A"]
    /\ aborted = "none"
    /\ HeldOf("t1") = <<"B", "A", "B">>
    /\ outstanding["t1"]["A"] = 1
    /\ RecordOf("t1").lockArray[MXUSER_MAX_LOCKS_PER_THREAD] = NULL

(***************************************************************************)
(* Properties of the insertion when every thread has its own identity      *)
(***************************************************************************)

\* C23: when the callers are threads of different identities, every
\* HashTable_LookupOrInsert of MXUserGetPerThread returns the record the
\* caller has just allocated and leaves it stored under the caller's
\* identity; no caller reaches MXUserFreePerThread, and the free list is
\* empty in every state.
C23_InsertNeverLost ==
    /\ [](OwnIdentities =>
             /\ perThreadFreeList = NULL
             /\ \A c \in Callers : gPc[c] \notin {"freeLock", "freePush"})
    /\ [][OwnIdentities =>
             \A c \in Callers :
                (gPc[c] = "insert" /\ gPc'[c] # "insert") =>
                   /\ gPerThread'[c] = gNewEntry[c]
                   /\ hashTableMem[tidOf[c]] = NULL
                   /\ hashTableMem'[tidOf[c]] = gNewEntry[c]
                   /\ gPc'[c] = "ret"]_vars

\* Three threads of different identities race: c1 has inserted the record it
\* allocated and is about to return it, c2 and c3 are about to insert
\* theirs, and nothing is on the free list.
C23_Witness ==
    /\ OwnIdentities
    /\ gPc["c1"] = "ret" /\ gPerThread["c1"] = gNewEntry["c1"]
    /\ hashTableMem[tidOf["c1"]] = gNewEntry["c1"]
    /\ gPc["c2"] = "insert" /\ gPc["c3"] = "insert"
    /\ Cardinality({gNewEntry[c] : c \in Callers}) = 3
    /\ perThreadFreeList = NULL

(***************************************************************************)
(* Properties of the ranks held together                                   *)
(***************************************************************************)

\* The headers in the record of thread t.
HeldSet(t) == {HeldOf(t)[i] : i \in DOMAIN HeldOf(t)}

\* C24: with every acquire rank-checked on a ranked header, no panic and no
\* legacy hook, two distinct headers in a thread's record never have the same
\* rank.  A header enters the record only by an acquire that admits it as a
\* first instance, and at that step every header in the record, that is
\* every header admitted before it and still held, is of a strictly smaller
\* rank and stays in the record; so of two headers held together the one
\* admitted later is of the strictly greater rank.
C24_RanksIncreaseWithAdmission ==
    /\ [](~MXUser_InPanic /\ hooks["CheckRank"] = NULL)
    /\ [](\A t \in Tids : \A g, h \in HeldSet(t) :
             g # h => HeaderRank(g) # HeaderRank(h))
    /\ [][\A t \in Tids : \A h \in HeldSet(t)' \ HeldSet(t) :
             /\ Returned("acquire", t)
             /\ lastCall'.header = h
             /\ lastCall'.checkRank
             /\ HeldSet(t)' = HeldSet(t) \cup {h}
             /\ \A g \in HeldSet(t) : HeaderRank(g) < HeaderRank(h)]_vars

\* Thread t1 acquired A, B, A again and D, then released A once: B and D,
\* admitted after A, are of greater ranks than A, though A now stands after
\* B in the record.
C24_Witness ==
    /\ aborted = "none"
    /\ lastCall = [op |-> "release", tid |-> "t1", header |-> "A"]
    /\ HeldOf("t1") = <<"B", "A", "D">>

=============================================================================
